---- MODULE Spec2Model ----
(***************************************************************************)
(* Model of the notion-auto-migration-server job orchestrator              *)
(* (app/jobs.py, JobManager), of the capture (app/dump_service.py) and of  *)
(* the materialization (app/migrate_service.py)                            *)
(*                                                                         *)
(* Scheduling: the program runs on one asyncio event loop.  A coroutine    *)
(* runs without interruption until it awaits something that is not ready.  *)
(* asyncio.Lock.acquire on a free lock, Queue.put on an unbounded queue    *)
(* and the synchronous file I/O of the history service never suspend, so   *)
(* each JobManager handler is one atomic step; the suspension points are   *)
(* the engine's remote calls (run_in_threadpool), asyncio.sleep in         *)
(* _auto_cleanup_job and the creation of tasks (asyncio.create_task), whose*)
(* bodies run in a later step.                                             *)
(***************************************************************************)
EXTENDS Integers, Sequences, FiniteSets, TLC

\* ------------------------------------------------------------------------
\* Bounds of the model
\* ------------------------------------------------------------------------
\* number of job ids (uuid4 values) handed out in the runs of one job's life
MaxJobs == 1
\* number of job ids handed out in the runs about capacity
MaxCapJobs == 2
\* number of job ids handed out in the runs with event streams
MaxStreamJobs == 1
\* number of job ids handed out in the runs about removal
MaxRemoveJobs == 2
\* number of subscriber queues the model creates
MaxSubs == 1
\* backlog of unread events in a subscriber queue at which its reader must
\* read before the next handler broadcasts
MaxQueue == 1
\* largest per-type limit passed to the JobManager constructor
MaxLimit == 1
\* number of blocks below the root of a captured tree
MaxNodes == 3
\* the blocks 1..MaxAssets of a captured tree may carry a file
MaxAssets == 2
\* number of roots captures are started for
MaxRoots == 2
\* longest title of a root, in characters
MaxTitle == 2
\* number of captures started in the runs about directories
MaxRuns == 2
\* seconds that pass in the runs about directories
MaxClock == 1
\* longest flat run of regular nodes a materialization is given
MaxRun == 201
\* number of local paths in the asset map
MaxPaths == 1
\* number of remote calls that fail in one materialization
MaxFaults == 2
\* largest number of items the remote returns in one page
MaxPageSize == 2

VARIABLES
    ids,          \* number of job ids (uuid4 values) the run hands out
    max_dump,     \* JobManager.max_dump    (constructor argument)
    max_migrate,  \* JobManager.max_migrate (constructor argument)
    job,          \* every Job object ever created: id -> Job fields
    jobs,         \* keys of JobManager._jobs (the live table)
    task,         \* Job.task: position of the job's runner coroutine
    ticks,        \* _tick tasks created by _progress and not yet run, per job
    subscribers,  \* JobManager._subscribers
    queue,        \* contents of every asyncio.Queue handed out by subscribe
    snapTask,     \* q.put(snapshot) tasks created by subscribe, not yet run
    hist,         \* JobHistoryService: job id -> history entry
    ret,          \* the last call of enqueue_*, cancel or remove: its name, the
                  \* job id it was about (0: none) and its result (TRUE: a Job
                  \* or True; FALSE: False or the capacity error raised)
    \* one run of NotionDumpService (dump_page_tree or dump_database_tree)
    flavor,       \* "page" or "database" ("none": no capture is modelled)
    remote,       \* the remote workspace: the pages of children of every block
    cancel_cb,    \* what cancel_cb() returns: job.cancel_event.is_set()
    stack,        \* the frames of walk_children / _process_entry_blocks and
                  \* of the loops of dump_database_tree, innermost last
    calls,        \* per parent, the result pages its list calls returned, in
                  \* call order
    tree,         \* snapshot_root once it is built (None before)
    manifest,     \* manifest["nodes"] (page) or manifest["entries"] (database)
    phase,        \* where the capture is: start, walking, walked, written,
                  \* cancelled, failed
    files,        \* which of tree.json and manifest.json exist in the capture
                  \* directory
    downloads,    \* the download_asset tasks created: block id -> running,
                  \* done or failed
    raised,       \* the exception that ended the capture ("none": none)
    \* the directories of several captures
    clock,        \* datetime.now() in whole seconds
    titles,       \* the title the remote holds for every root
    runs,         \* the captures started: root, flavor, dump_name, written
    folders,      \* the directories that exist under DUMP_ROOT
    \* one run of NotionMigrateService (migrate_under or migrate_database_under)
    mflavor,      \* "page" or "database" ("none": no run is modelled)
    source,       \* tree.json: the number of nodes, their parents and types
    asset_map,    \* asset_map: node id -> local_path and original
    captioned,    \* the asset blocks of the source carry a caption
    disk,         \* what is on disk at every local path
    target,       \* what the target id names at the remote
    first,        \* the log of the materialization made before this one of the
                  \* same capture, when there was one
    mstack,       \* the calls of the engine's coroutines, innermost last
    log,          \* the remote calls made, with what _upload_to_notion
                  \* returned and the descents into children, in order
    upload_cache, \* NotionMigrateService._upload_cache
    counter,      \* counter["done"]
    total,        \* total of the walk: the nodes counted by count_nodes
    reported,     \* the percentages handed to progress_cb, in order
    faults,       \* number of remote calls that failed
    mphase,       \* where the run is: start, running, done, cancelled, failed
    \* the properties of one run of migrate_database_under
    db_properties,       \* database_tree["properties"]: the captured schema
    dump_properties,     \* entry["properties"] of one captured entry
    creation_properties, \* the schema handed to create_database (None before)
    new_properties,      \* new_db["properties"], as the remote answered
    option_mappings,     \* what _build_option_id_mappings returned
    notion_properties    \* the properties handed to pages.create (None before)

\* the state of the orchestrator
orchVars == <<ids, max_dump, max_migrate, job, jobs, task, ticks,
              subscribers, queue, snapTask, hist, ret>>

\* the state of a capture but for the cancel flag
captureVars == <<flavor, remote, stack, calls, tree, manifest, phase, files,
                 downloads, raised>>

\* the state of a capture
dumpVars == <<cancel_cb, captureVars>>

\* the directories of the captures
dirVars == <<clock, titles, runs, folders>>

\* what a materialization is given
migInput == <<mflavor, source, asset_map, captioned, disk, target, first>>

\* the state of a materialization but for the cancel flag
migVars == <<migInput, mstack, log, upload_cache, counter, total, reported,
             faults, mphase>>

\* the properties of a database materialization
propVars == <<db_properties, dump_properties, creation_properties,
              new_properties, option_mappings, notion_properties>>

\* the state of the engines a job runs
engineVars == <<dumpVars, dirVars, migVars, propVars>>

\* the state outside a capture
notCapture == <<orchVars, dirVars, migVars, propVars>>

\* the state outside the walk of a materialization but for the cancel flag
notMigration == <<orchVars, captureVars, dirVars, propVars>>

vars == <<orchVars, engineVars>>

Min(a, b) == IF a < b THEN a ELSE b
Max(a, b) == IF a > b THEN a ELSE b

JobIds == 1..Max(Max(MaxCapJobs, MaxRemoveJobs), Max(MaxJobs, MaxStreamJobs))
QueueIds == 1..MaxSubs

Active == {"queued", "running"}
Terminal == {"done", "error", "canceled"}

\* an Optional argument: <<>> is None, <<v>> is the value v
None == <<>>
Some(v) == <<v>>

\* (p, msg) pairs an engine hands to progress_cb while it runs
Reports == {[p |-> 50, m |-> "Working"]}
\* the last report of every engine before it returns: progress_cb(100, "Complete")
FinalReport == [p |-> 100, m |-> "Complete"]

\* Job.to_dict (params and created_at never change and are left out)
ToDict(id, jb) ==
    [id |-> id, type |-> jb.type, status |-> jb.status,
     progress |-> jb.progress, message |-> jb.message]

\* the items of a snapshot payload: to_dict of every job of the live table
SnapshotItems(jb, live) == {ToDict(i, jb[i]) : i \in live}

Snapshot(jb, live) == [kind |-> "snapshot", items |-> SnapshotItems(jb, live)]

\* JobManager._broadcast: put the payload in every subscribed queue
Broadcast(qs, subs, payload) ==
    [q \in DOMAIN qs |-> IF q \in subs THEN Append(qs[q], payload) ELSE qs[q]]

\* JobHistoryService.update_job_progress; the entry must exist
UpdateJobProgress(h, id, status, progress, message, error) ==
    IF id \notin DOMAIN h THEN h
    ELSE [h EXCEPT ![id] =
            [status   |-> IF status # None /\ status[1] # "" THEN status[1] ELSE @.status,
             progress |-> IF progress # None THEN progress[1] ELSE @.progress,
             message  |-> IF message # None THEN message[1] ELSE @.message,
             error    |-> IF error # None THEN error ELSE @.error]]

\* add_job_started as it would be if it saved nothing
MutAddJobStarted(h, id) == h

\* JobHistoryService.add_job_started
AddJobStarted(h, id) ==
    h @@ (id :> [status |-> "queued", progress |-> 0, message |-> "", error |-> None])

\* Clamp without its lower and upper limit
MutClamp(p) == p

\* the clamp of _tick
Clamp(p) == Max(0, Min(100, p))

\* The mutable part of the program a handler works on.
World == [job |-> job, queue |-> queue, hist |-> hist]

\* _tick as it would be without its _broadcast_update call
MutTick(w, id, p, m) ==
    LET j1 == [w.job[id] EXCEPT
                 !.progress = IF p # None THEN Clamp(p[1]) ELSE @,
                 !.message  = IF m # None THEN m[1] ELSE @]
    IN [job   |-> [w.job EXCEPT ![id] = j1],
        queue |-> w.queue,
        hist  |-> UpdateJobProgress(w.hist, id, Some(j1.status),
                                    Some(j1.progress), Some(j1.message), None)]

\* JobManager._tick(job, p, m)
Tick(w, id, p, m) ==
    LET j1 == [w.job[id] EXCEPT
                 !.progress = IF p # None THEN Clamp(p[1]) ELSE @,
                 !.message  = IF m # None THEN m[1] ELSE @]
        jb == [w.job EXCEPT ![id] = j1]
    IN [job   |-> jb,
        queue |-> Broadcast(w.queue, subscribers,
                            [kind |-> "job_update", job |-> ToDict(id, j1)]),
        hist  |-> UpdateJobProgress(w.hist, id, Some(j1.status),
                                    Some(j1.progress), Some(j1.message), None)]

\* an assignment of job.status that is lost
MutSetStatus(w, id, s) == w

\* job.status = s
SetStatus(w, id, s) == [w EXCEPT !.job[id].status = s]

\* A handler that broadcasts starts only when the reader of every subscribed
\* queue has kept its backlog below MaxQueue (the queues are unbounded).
Room == \A q \in subscribers : Len(queue[q]) < MaxQueue

\* the orchestrator after JobManager(settings, max_dump, max_migrate), in a
\* run that hands out n job ids
Constructed(n) ==
    /\ ids = n
    /\ max_dump \in 1..MaxLimit
    /\ max_migrate \in 1..MaxLimit
    /\ job = <<>>
    /\ jobs = {}
    /\ task = <<>>
    /\ ticks = <<>>
    /\ subscribers = {}
    /\ queue = <<>>
    /\ snapTask = <<>>
    /\ hist = <<>>
    /\ ret = [op |-> "none", id |-> 0, val |-> FALSE]

\* no capture is modelled step by step: the engine call of a job is the
\* abstract EngineStep
NoCapture ==
    /\ flavor = "none"
    /\ remote = <<>>
    /\ cancel_cb = FALSE
    /\ stack = <<>>
    /\ calls = <<>>
    /\ tree = <<>>
    /\ manifest = <<>>
    /\ phase = "idle"
    /\ files = {}
    /\ downloads = <<>>
    /\ raised = "none"

\* no capture has named a directory
NoFolders ==
    /\ clock = 0
    /\ titles = <<>>
    /\ runs = <<>>
    /\ folders = {}

\* no materialization is modelled
NoMigration ==
    /\ mflavor = "none"
    /\ source = <<>>
    /\ asset_map = <<>>
    /\ captioned = FALSE
    /\ disk = <<>>
    /\ target = "none"
    /\ first = None
    /\ mstack = <<>>
    /\ log = <<>>
    /\ upload_cache = <<>>
    /\ counter = 0
    /\ total = 0
    /\ reported = <<>>
    /\ faults = 0
    /\ mphase = "idle"

\* the properties of no database are modelled
NoProperties ==
    /\ db_properties = <<>>
    /\ dump_properties = <<>>
    /\ creation_properties = None
    /\ new_properties = <<>>
    /\ option_mappings = <<>>
    /\ notion_properties = None

Start(n) ==
    Constructed(n) /\ NoCapture /\ NoFolders /\ NoMigration /\ NoProperties

Init == Start(MaxJobs)

InitCap == Start(MaxCapJobs)

InitStream == Start(MaxStreamJobs)

\* ------------------------------------------------------------------------
\* Capacity check
\* ------------------------------------------------------------------------
\* JobManager._count_active
CountActive(typ) ==
    Cardinality({i \in jobs : job[i].type = typ /\ job[i].status \in Active})

\* JobManager._ensure_capacity: TRUE when it raises
AtCapacity(typ) ==
    LET limit == IF typ = "dump" THEN max_dump ELSE max_migrate
    IN CountActive(typ) >= limit

\* The body shared by enqueue_dump, enqueue_dump_database and enqueue_migrate:
\* _ensure_capacity(capTyp), then a new Job of type typ is put in the table,
\* job_added is broadcast, the history entry is added and the runner task is
\* created.
Enqueue(op, typ, capTyp) ==
    IF AtCapacity(capTyp)
    THEN /\ ret' = [op |-> op, id |-> 0, val |-> FALSE]
         /\ UNCHANGED <<engineVars, ids, max_dump, max_migrate, job, jobs, task, ticks,
                        subscribers, queue, snapTask, hist>>
    ELSE LET id == Cardinality(DOMAIN job) + 1
             jb == [type |-> typ, status |-> "queued", progress |-> 0,
                    message |-> "", cancel |-> FALSE]
         IN /\ id <= ids
            /\ Room
            /\ job' = job @@ (id :> jb)
            /\ jobs' = jobs \cup {id}
            /\ queue' = Broadcast(queue, subscribers,
                                  [kind |-> "job_added", job |-> ToDict(id, jb)])
            /\ hist' = AddJobStarted(hist, id)
            /\ task' = task @@ (id :> "ready")
            /\ ticks' = ticks @@ (id :> <<>>)
            /\ ret' = [op |-> op, id |-> id, val |-> TRUE]
            /\ UNCHANGED <<engineVars, ids, max_dump, max_migrate, subscribers, snapTask>>

enqueue_dump == Enqueue("enqueue_dump", "dump", "dump")

enqueue_dump_database == Enqueue("enqueue_dump_database", "dump_database", "dump")

enqueue_migrate == Enqueue("enqueue_migrate", "migrate", "migrate")

\* ------------------------------------------------------------------------
\* cancel / remove
\* ------------------------------------------------------------------------
\* cancel as it would be if it only set the flag and left the status to the
\* worker
MutCancelEffect(w, id) ==
    LET j1 == [w.job[id] EXCEPT !.cancel = TRUE]
    IN [job   |-> [w.job EXCEPT ![id] = j1],
        queue |-> Broadcast(w.queue, subscribers,
                            [kind |-> "job_update", job |-> ToDict(id, j1)]),
        hist  |-> w.hist]

\* what JobManager.cancel does to a queued or running job
CancelEffect(w, id) ==
    LET j1 == [w.job[id] EXCEPT !.cancel = TRUE, !.status = "canceled",
                                !.message = "Cancelled"]
    IN [job   |-> [w.job EXCEPT ![id] = j1],
        queue |-> Broadcast(w.queue, subscribers,
                            [kind |-> "job_update", job |-> ToDict(id, j1)]),
        hist  |-> UpdateJobProgress(w.hist, id, Some("canceled"), None,
                                    Some("Cancelled by user"), None)]

\* JobManager.cancel(job_id)
cancel(id) ==
    /\ UNCHANGED <<engineVars, ids, max_dump, max_migrate, jobs, task, ticks,
                   subscribers, snapTask>>
    /\ IF id \notin jobs
       THEN /\ ret' = [op |-> "cancel", id |-> id, val |-> FALSE]
            /\ UNCHANGED <<job, queue, hist>>
       ELSE IF job[id].status \in Terminal
       THEN /\ ret' = [op |-> "cancel", id |-> id, val |-> TRUE]
            /\ UNCHANGED <<job, queue, hist>>
       ELSE LET w == CancelEffect(World, id)
            IN /\ Room
               /\ job' = w.job
               /\ queue' = w.queue
               /\ hist' = w.hist
               /\ ret' = [op |-> "cancel", id |-> id, val |-> TRUE]

\* the test of remove as it would be if it forgot the queued jobs
MutRemoveRefused(id) == job[id].status = "running"

\* the test of JobManager.remove that refuses a job
RemoveRefused(id) == job[id].status \in Active

\* JobManager.remove(job_id)
remove(id) ==
    /\ UNCHANGED <<engineVars, ids, max_dump, max_migrate, job, task, ticks,
                   subscribers, snapTask, hist>>
    /\ IF id \notin jobs
       THEN /\ ret' = [op |-> "remove", id |-> id, val |-> FALSE]
            /\ UNCHANGED <<jobs, queue>>
       ELSE IF RemoveRefused(id)
       THEN /\ ret' = [op |-> "remove", id |-> id, val |-> FALSE]
            /\ UNCHANGED <<jobs, queue>>
       ELSE /\ Room
            /\ jobs' = jobs \ {id}
            /\ queue' = Broadcast(queue, subscribers, Snapshot(job, jobs \ {id}))
            /\ ret' = [op |-> "remove", id |-> id, val |-> TRUE]

\* ------------------------------------------------------------------------
\* The runner of a job
\* ------------------------------------------------------------------------
\* JobManager._auto_cleanup_job up to its asyncio.sleep: the position the
\* runner is left in
AutoCleanupEntry(w, id) ==
    IF w.job[id].status \in Terminal THEN "sleep" ELSE "finished"

\* the cancel test as it would be if the runner did not make it
MutCanceledBeforeStart(id) == FALSE

\* the first test of runner(): was the job canceled before the runner began
CanceledBeforeStart(id) == job[id].cancel

\* the message the runner starts with
StartMessage(typ) ==
    IF typ = "dump_database" THEN "Starting database dump" ELSE "Starting"

\* the runner as it would be if it marked every job done whose engine call
\* returns
MutRunnerAfter(w, id, outcome) ==
    LET done == Tick(SetStatus(w, id, "done"), id, Some(100),
                     Some("Complete: path"))
    IN  IF outcome = "return"
        THEN [w |-> done, task |-> AutoCleanupEntry(done, id)]
        ELSE [w |-> w, task |-> "finished"]

\* The runner from the end of the engine call on.  outcome is "return" (the
\* engine returned), "cancelled" (it raised asyncio.CancelledError) or "error"
\* (it raised another exception).  The result is the world and the position
\* of the runner.
RunnerAfter(w, id, outcome) ==
    LET jb == w.job[id]
        canceled == Tick(SetStatus(w, id, "canceled"), id, Some(jb.progress),
                         Some("Cancelled"))
        done == Tick(SetStatus(w, id, "done"), id, Some(100), Some("Complete: path"))
        error == Tick(SetStatus(w, id, "error"), id, Some(jb.progress),
                      Some("Error: e"))
        same == [w |-> w, task |-> "finished"]
    IN CASE outcome = "return" ->
                IF jb.cancel /\ jb.status # "canceled"
                THEN [w |-> canceled, task |-> AutoCleanupEntry(canceled, id)]
                ELSE IF ~jb.cancel
                THEN [w |-> done, task |-> AutoCleanupEntry(done, id)]
                ELSE same
         [] outcome = "cancelled" ->
                IF jb.status # "canceled"
                THEN [w |-> canceled, task |-> AutoCleanupEntry(canceled, id)]
                ELSE same
         [] OTHER -> [w |-> error, task |-> AutoCleanupEntry(error, id)]

\* the _tick tasks one run of the engine between two suspensions creates:
\* none or one report
Segments == {<<>>} \cup {<<r>> : r \in Reports}

\* The first step of runner(): the cancel test, status running and
\* _tick(job, 0, "Starting"), then the code up to the first suspension.  For
\* a migrate job the dump files may be missing (FileNotFoundError).
WorkerStart(id) ==
    /\ id \in DOMAIN task
    /\ task[id] = "ready"
    /\ UNCHANGED <<engineVars, ids, max_dump, max_migrate, jobs, subscribers, snapTask, ret>>
    /\ IF CanceledBeforeStart(id)
       THEN /\ task' = [task EXCEPT ![id] = "finished"]
            /\ UNCHANGED <<job, ticks, queue, hist>>
       ELSE LET w1 == Tick(SetStatus(World, id, "running"), id, Some(0),
                           Some(StartMessage(job[id].type)))
            IN \/ /\ Room
                  /\ \E seg \in Segments : ticks' = [ticks EXCEPT ![id] = seg]
                  /\ job' = w1.job
                  /\ queue' = w1.queue
                  /\ hist' = w1.hist
                  /\ task' = [task EXCEPT ![id] = "engine"]
               \/ /\ job[id].type = "migrate"
                  /\ Room
                  /\ LET r == RunnerAfter(w1, id, "error")
                     IN /\ job' = r.w.job
                        /\ queue' = r.w.queue
                        /\ hist' = r.w.hist
                        /\ task' = [task EXCEPT ![id] = r.task]
                  /\ UNCHANGED ticks

\* the outcomes a resumed engine can have: a cancellation checkpoint raises
\* only when the cancel flag is set
Outcomes(id) ==
    {"continue", "return", "error"} \cup
    (IF job[id].cancel THEN {"cancelled"} ELSE {})

\* The runner is resumed inside the engine call (a remote call has returned or
\* failed).  The _tick tasks the engine created before it suspended are ahead
\* of the resumption in the loop's ready queue, so they have run.
EngineStep(id) ==
    /\ id \in DOMAIN task
    /\ task[id] = "engine"
    /\ ticks[id] = <<>>
    /\ UNCHANGED <<engineVars, ids, max_dump, max_migrate, jobs, subscribers, snapTask, ret>>
    /\ \E outcome \in Outcomes(id) :
         IF outcome = "continue"
         THEN /\ \E seg \in Segments : ticks' = [ticks EXCEPT ![id] = seg]
              /\ UNCHANGED <<job, task, queue, hist>>
         ELSE LET r == RunnerAfter(World, id, outcome)
              IN /\ Room
                 /\ IF outcome = "return"
                    THEN ticks' = [ticks EXCEPT ![id] = <<FinalReport>>]
                    ELSE \E seg \in Segments : ticks' = [ticks EXCEPT ![id] = seg]
                 /\ job' = r.w.job
                 /\ queue' = r.w.queue
                 /\ hist' = r.w.hist
                 /\ task' = [task EXCEPT ![id] = r.task]

\* A _tick task created by _progress runs: self._tick(job, p, msg)
ApplyTick(id) ==
    /\ id \in DOMAIN ticks
    /\ ticks[id] # <<>>
    /\ Room
    /\ LET t == Head(ticks[id])
           w == Tick(World, id, Some(t.p), Some(t.m))
       IN /\ job' = w.job
          /\ queue' = w.queue
          /\ hist' = w.hist
    /\ ticks' = [ticks EXCEPT ![id] = Tail(@)]
    /\ UNCHANGED <<engineVars, ids, max_dump, max_migrate, jobs, task, subscribers, snapTask, ret>>

\* JobManager._auto_cleanup_job after its asyncio.sleep(3.0)
CleanupWake(id) ==
    /\ id \in DOMAIN task
    /\ task[id] = "sleep"
    /\ ticks[id] = <<>>
    /\ task' = [task EXCEPT ![id] = "finished"]
    /\ IF id \in jobs
       THEN /\ Room
            /\ jobs' = jobs \ {id}
            /\ queue' = Broadcast(queue, subscribers, Snapshot(job, jobs \ {id}))
       ELSE UNCHANGED <<jobs, queue>>
    /\ UNCHANGED <<engineVars, ids, max_dump, max_migrate, job, ticks, subscribers, snapTask,
                   hist, ret>>

\* ------------------------------------------------------------------------
\* Subscribers
\* ------------------------------------------------------------------------
\* f without the key k
Without(f, k) == [x \in DOMAIN f \ {k} |-> f[x]]

\* JobManager.subscribe: the queue is appended to the subscriber list and a
\* task that puts the snapshot computed now is created
subscribe ==
    LET q == Cardinality(DOMAIN queue) + 1
    IN /\ q <= MaxSubs
       /\ subscribers' = subscribers \cup {q}
       /\ queue' = queue @@ (q :> <<>>)
       /\ snapTask' = snapTask @@ (q :> Snapshot(job, jobs))
       /\ UNCHANGED <<engineVars, ids, max_dump, max_migrate, job, jobs, task, ticks, hist, ret>>

\* the task created by subscribe runs: q.put(snapshot)
SnapshotPut(q) ==
    /\ q \in DOMAIN snapTask
    /\ Len(queue[q]) < MaxQueue
    /\ queue' = [queue EXCEPT ![q] = Append(@, snapTask[q])]
    /\ snapTask' = Without(snapTask, q)
    /\ UNCHANGED <<engineVars, ids, max_dump, max_migrate, job, jobs, task, ticks, subscribers,
                   hist, ret>>

\* JobManager.unsubscribe(q)
unsubscribe(q) ==
    /\ q \in DOMAIN queue
    /\ subscribers' = subscribers \ {q}
    /\ UNCHANGED <<engineVars, ids, max_dump, max_migrate, job, jobs, task, ticks, queue,
                   snapTask, hist, ret>>

\* the reader of the event stream takes the next event: q.get()
Consume(q) ==
    /\ q \in subscribers
    /\ queue[q] # <<>>
    /\ queue' = [queue EXCEPT ![q] = Tail(@)]
    /\ UNCHANGED <<engineVars, ids, max_dump, max_migrate, job, jobs, task, ticks, subscribers,
                   snapTask, hist, ret>>

\* ------------------------------------------------------------------------
\* Specifications
\* ------------------------------------------------------------------------
\* the steps of the runner tasks and of the _tick tasks
Worker ==
    \/ \E id \in JobIds : WorkerStart(id)
    \/ \E id \in JobIds : EngineStep(id)
    \/ \E id \in JobIds : ApplyTick(id)
    \/ \E id \in JobIds : CleanupWake(id)

\* The orchestrator with no event stream open: every kind of job, any
\* interleaving of the calls with the steps of the workers and of the _tick
\* tasks.
Next ==
    \/ enqueue_dump
    \/ enqueue_dump_database
    \/ enqueue_migrate
    \/ \E id \in JobIds : cancel(id)
    \/ \E id \in JobIds : remove(id)
    \/ Worker

Spec == Init /\ [][Next]_vars

\* the same steps with enough job ids to fill a type's capacity
SpecCap == InitCap /\ [][Next]_vars

\* The orchestrator with event streams: every kind of job, the calls, the
\* workers, and the subscribers with their readers.
NextStream ==
    \/ Next
    \/ subscribe
    \/ \E q \in QueueIds : SnapshotPut(q)
    \/ \E q \in QueueIds : unsubscribe(q)
    \/ \E q \in QueueIds : Consume(q)

SpecStream == InitStream /\ [][NextStream]_vars

\* ========================================================================
\* Properties of the orchestrator
\* ========================================================================
JobTypes == {"dump", "dump_database", "migrate"}

\* the limit the constructor configures for a type: the two kinds of dump
\* share max_dump
LimitOf(typ) == IF typ = "migrate" THEN max_migrate ELSE max_dump

\* C1: in every reachable state, for each job type, the number of jobs of the
\* live table that have the type and status queued or running is at most the
\* limit configured for the type.
C1_CapacityInvariant ==
    \A typ \in JobTypes : CountActive(typ) <= LimitOf(typ)

\* C4: an enqueue of type T fails with the capacity error exactly when the
\* number of queued or running live jobs of type T has reached the limit
\* of T, whatever the jobs of the other types are.
C4_EnqueueFailsAtOwnLimit ==
    [][/\ enqueue_dump =>
            (ret'.val <=> CountActive("dump") < LimitOf("dump"))
       /\ enqueue_dump_database =>
            (ret'.val <=> CountActive("dump_database") < LimitOf("dump_database"))
       /\ enqueue_migrate =>
            (ret'.val <=> CountActive("migrate") < LimitOf("migrate"))]_vars

\* A job that was canceled and whose runner is not inside the engine: the
\* runner has not begun or has ended, and no _tick task is left.
Quiet(id) ==
    /\ job[id].cancel
    /\ job[id].status = "canceled"
    /\ task[id] \in {"ready", "finished"}
    /\ ticks[id] = <<>>

\* C2: when cancel is applied to a job whose runner has not begun, the status
\* is canceled from then on and never running; the runner, once scheduled,
\* ends without entering the engine, creates no _tick task and changes
\* neither the job nor its history entry.
C2_CancelBeforeStart ==
    [][\A id \in DOMAIN job :
         /\ (task[id] = "ready" /\ job'[id].cancel) => Quiet(id)'
         /\ Quiet(id) => /\ Quiet(id)'
                         /\ job'[id] = job[id]
                         /\ hist'[id] = hist[id]]_vars

\* C2 witness: cancel has returned True for a job whose runner has not begun.
C2_Witness ==
    \E id \in DOMAIN job :
        /\ ret = [op |-> "cancel", id |-> id, val |-> TRUE]
        /\ task[id] = "ready"
        /\ job[id].cancel

\* the status changes a job may make
Lifecycle ==
    {<<"queued", "running">>, <<"queued", "canceled">>, <<"running", "done">>,
     <<"running", "error">>, <<"running", "canceled">>}

\* the status changes one step may make: a handler that does not suspend
\* between two changes makes both in one step
LifecycleSteps ==
    Lifecycle \cup {<<a, c>> : a \in {"queued"}, c \in {"done", "error", "canceled"}}

\* C3: a job's status only makes the changes queued -> running, queued ->
\* canceled, running -> done, running -> error, running -> canceled (one or
\* more of them in a step); a status of done, error or canceled never changes
\* again.
C3_LifecycleOnly ==
    [][\A id \in DOMAIN job :
         job'[id].status # job[id].status =>
             <<job[id].status, job'[id].status>> \in LifecycleSteps]_vars

\* C5: cancel returns False exactly for an id that is not in the live table;
\* for a queued or running job it sets the cancel flag and status canceled in
\* one step and puts a job_update carrying them in every subscribed queue; for
\* a job that is done, error or canceled it returns True and leaves the job
\* as it is.
C5_Cancel ==
    [][\A id \in JobIds :
         cancel(id) =>
           /\ ret'.val <=> id \in jobs
           /\ id \in jobs /\ job[id].status \in Active =>
                /\ job'[id].cancel
                /\ job'[id].status = "canceled"
                /\ \A q \in subscribers :
                     queue'[q] = Append(queue[q],
                         [kind |-> "job_update", job |-> ToDict(id, job'[id])])
           /\ id \in jobs /\ job[id].status \in Terminal =>
                /\ job'[id] = job[id]
                /\ queue' = queue]_vars

\* C5 witness: cancel has returned True for a live job, a subscriber holds the
\* job_update that carries status canceled.
C5_Witness ==
    \E id \in jobs, q \in subscribers :
        /\ ret = [op |-> "cancel", id |-> id, val |-> TRUE]
        /\ job[id].cancel
        /\ queue[q] # <<>>
        /\ queue[q][Len(queue[q])] =
               [kind |-> "job_update", job |-> ToDict(id, job[id])]
        /\ job[id].status = "canceled"

\* C7: the first event put in a subscriber's queue is its snapshot: while the
\* put of the snapshot is still to run, nothing is in the queue.
C7_SnapshotFirst ==
    \A q \in DOMAIN snapTask : queue[q] = <<>>

\* C9: every step that changes the status, progress or message of a live job,
\* or that puts a job in the live table, puts as its last event in every
\* subscribed queue a job_update (job_added for the new job) that carries the
\* job's new values.
C9_ChangeIsBroadcast ==
    [][\A id \in jobs' :
         LET new == id \notin DOMAIN job
             kind == IF new THEN "job_added" ELSE "job_update"
         IN (new \/ ToDict(id, job'[id]) # ToDict(id, job[id])) =>
              \A q \in subscribers :
                  /\ Len(queue'[q]) > Len(queue[q])
                  /\ queue'[q][Len(queue'[q])] =
                         [kind |-> kind, job |-> ToDict(id, job'[id])]]_vars

\* C9 witness: a running job has reported progress and a subscriber holds the
\* job_update with the reported values.
C9_Witness ==
    \E id \in jobs, q \in subscribers :
        /\ job[id].status = "running"
        /\ job[id].progress = 50
        /\ queue[q] # <<>>
        /\ queue[q][Len(queue[q])] =
               [kind |-> "job_update", job |-> ToDict(id, job[id])]

\* ------------------------------------------------------------------------
\* The orchestrator under the scheduling the event loop guarantees
\* ------------------------------------------------------------------------
\* the engine call of a job ends: it returns or raises
EngineEnds(id) == EngineStep(id) /\ task'[id] # "engine"

\* Every task that is ready runs (the loop's ready queue is first in, first
\* out), the sleep of _auto_cleanup_job ends, and the engine call ends: its
\* walk is finite and every remote call returns or fails.  No call of cancel
\* or remove is ever required to happen.
Fairness ==
    \A id \in JobIds :
        /\ WF_vars(WorkerStart(id))
        /\ WF_vars(ApplyTick(id))
        /\ WF_vars(CleanupWake(id))
        /\ SF_vars(EngineEnds(id))

SpecFair == Init /\ [][Next]_vars /\ Fairness

\* C6: every job that reaches done, error or canceled, by its worker or by
\* cancel, is eventually removed from the live table, with no call of remove
\* being needed.
C6_TerminalJobAutoRemoved ==
    \A id \in JobIds :
        (id \in jobs /\ job[id].status \in Terminal) ~> (id \notin jobs)

\* ------------------------------------------------------------------------
\* Removal of jobs with a second job in the table
\* ------------------------------------------------------------------------
\* Two migrate jobs and one event stream that stays open: the calls, the
\* workers and the reader.  remove and _auto_cleanup_job treat every type of
\* job alike, and the runner of a migrate job has every branch a runner has.
InitRemove == Start(MaxRemoveJobs)

NextRemove ==
    \/ enqueue_migrate
    \/ \E id \in JobIds : cancel(id)
    \/ \E id \in JobIds : remove(id)
    \/ Worker
    \/ subscribe
    \/ \E q \in QueueIds : SnapshotPut(q)
    \/ \E q \in QueueIds : Consume(q)

SpecRemove == InitRemove /\ [][NextRemove]_vars

\* C8: no job leaves the live table while it is queued or running.
\* remove(id) returns false and changes nothing for such a job and for an
\* unknown id; for a job that is done, error or canceled it removes exactly
\* that job, leaves the other jobs as they are, returns true and puts on
\* every subscriber's queue a snapshot holding exactly the remaining jobs.
C8_Remove ==
    [][/\ \A id \in jobs : job[id].status \in Active => id \in jobs'
       /\ \A id \in JobIds : remove(id) =>
            IF id \notin jobs \/ job[id].status \in Active
            THEN /\ ~ret'.val
                 /\ jobs' = jobs
                 /\ job' = job
                 /\ queue' = queue
            ELSE /\ ret'.val
                 /\ jobs' = jobs \ {id}
                 /\ job' = job
                 /\ \A q \in subscribers :
                      queue'[q] = Append(queue[q],
                          [kind |-> "snapshot",
                           items |-> {ToDict(j, job[j]) : j \in jobs \ {id}}])
      ]_vars

\* a finished job has been removed while another job is in the table, and
\* the subscriber has been sent the snapshot holding that other job
C8_Witness ==
    \E id \in DOMAIN job : \E q \in subscribers :
        /\ ret = [op |-> "remove", id |-> id, val |-> TRUE]
        /\ id \notin jobs
        /\ jobs # {}
        /\ queue[q] # <<>>
        /\ queue[q][Len(queue[q])] =
               [kind |-> "snapshot", items |-> {ToDict(j, job[j]) : j \in jobs}]

\* C19: every job whose status is error has a history entry whose error field
\* holds the error text.
C19_ErrorKeptInHistory ==
    \A id \in DOMAIN job :
        job[id].status = "error" => hist[id].error # None

\* C22: a job whose status is done, error or canceled keeps its message and
\* its progress in every step that leaves it in that status.
C22_TerminalTextKept ==
    [][\A id \in DOMAIN job :
           (job[id].status \in Terminal /\ job'[id].status = job[id].status) =>
               /\ job'[id].message = job[id].message
               /\ job'[id].progress = job[id].progress]_vars

\* the runner of a terminal job is not inside the engine and no _tick task
\* of the job is left
Settled(id) ==
    /\ job[id].status \in Terminal
    /\ task[id] \in {"ready", "sleep", "finished"}
    /\ ticks[id] = <<>>

\* C23: when a job is terminal and no update of it is pending, its history
\* entry has the status, the progress and the message of the last job_update
\* event broadcast for it.
C23_HistoryAsBroadcast ==
    \A id \in DOMAIN job : \A q \in subscribers :
        (/\ Settled(id)
         /\ queue[q] # <<>>
         /\ queue[q][Len(queue[q])].kind = "job_update"
         /\ queue[q][Len(queue[q])].job.id = id)
        => LET sent == queue[q][Len(queue[q])].job
           IN /\ hist[id].status = sent.status
              /\ hist[id].progress = sent.progress
              /\ hist[id].message = sent.message

\* ---------------------------------------------------------------------------
\* _tick on arbitrary reports
\* ---------------------------------------------------------------------------

\* how far below 0 and above 100 the reported progress values range
MaxOver == 2

\* the progress values and the messages handed to _tick
Percentages == (0 - MaxOver) .. (100 + MaxOver)
Messages == {"Working", "Complete"}

\* await self._tick(job, p, m) for any job of the manager, p and m optional
Report(id, p, m) ==
    /\ id \in DOMAIN job
    /\ Room
    /\ LET w == Tick(World, id, p, m)
       IN /\ job' = w.job
          /\ queue' = w.queue
          /\ hist' = w.hist
    /\ ret' = [op |-> "_tick", id |-> id, val |-> [p |-> p, m |-> m]]
    /\ UNCHANGED <<engineVars, ids, max_dump, max_migrate, jobs, task, ticks,
                   subscribers, snapTask>>

NextTick ==
    \/ enqueue_dump
    \/ \E id \in 1..MaxJobs :
         \E p \in {None} \cup {Some(v) : v \in Percentages} :
           \E m \in {None} \cup {Some(t) : t \in Messages} :
             Report(id, p, m)

SpecTick == Init /\ [][NextTick]_vars

\* C30: the progress of every job is an integer from 0 to 100 whatever value
\* is reported; a report without a message keeps the message, a report without
\* a progress value keeps the progress, and a reported value inside 0..100 is
\* taken as it is.
C30_ProgressClamped ==
    /\ [](\A id \in DOMAIN job : job[id].progress \in 0..100)
    /\ [][ret'.op = "_tick" =>
            LET id == ret'.id
                p  == ret'.val.p
                m  == ret'.val.m
            IN /\ m = None => job'[id].message = job[id].message
               /\ m # None => job'[id].message = m[1]
               /\ p = None => job'[id].progress = job[id].progress
               /\ (p # None /\ p[1] \in 0..100) => job'[id].progress = p[1]
               /\ (p # None /\ p[1] < 0) => job'[id].progress = 0
               /\ (p # None /\ p[1] > 100) => job'[id].progress = 100]_vars

\* a value above 100 was reported without a message to a job that had a
\* message and a progress below 100
C30_Witness ==
    /\ ret.op = "_tick"
    /\ ret.val.p = Some(100 + MaxOver)
    /\ ret.val.m = None
    /\ job[ret.id].progress = 100
    /\ job[ret.id].message = "Working"

\* the event a step puts in the queue q, when it puts one
Put(q) == queue'[q][Len(queue'[q])]

Puts(q) ==
    /\ q \in DOMAIN queue
    /\ queue'[q] # <<>>
    /\ queue'[q] = Append(queue[q], Put(q))

\* C33: the step of an enqueue that accepts a job puts the job in the live
\* table with status queued, puts its job_added event in the queue of every
\* subscriber and writes its history entry, and leaves its runner still to
\* begin; and every later step that puts a job_update event of a job in a
\* queue, changes a field of the job or moves its runner finds the job
\* created and its history entry written by an earlier step
C33_AddedBeforeUpdated ==
    [][/\ \A id \in jobs' \ jobs :
              /\ id \notin DOMAIN job
              /\ job'[id].status = "queued"
              /\ \A q \in subscribers :
                     /\ Puts(q)
                     /\ Put(q) = [kind |-> "job_added",
                                  job |-> ToDict(id, job'[id])]
              /\ id \notin DOMAIN hist
              /\ id \in DOMAIN hist'
              /\ hist'[id].status = "queued"
              /\ task'[id] = "ready"
       /\ \A id \in JobIds :
              \/ \E q \in DOMAIN queue :
                     /\ Puts(q)
                     /\ Put(q).kind = "job_update"
                     /\ Put(q).job.id = id
              \/ /\ id \in DOMAIN job
                 /\ \/ job'[id] # job[id]
                    \/ task'[id] # task[id]
                    \/ hist'[id] # hist[id]
              => /\ id \in DOMAIN job
                 /\ id \in DOMAIN hist]_vars

\* a subscriber has read the job_added event of a job and finds its first
\* job_update event in its queue, the history entry of the job updated
C33_Witness ==
    \E q \in subscribers :
        /\ queue[q] # <<>>
        /\ Head(queue[q]).kind = "job_update"
        /\ Head(queue[q]).job.id \in DOMAIN hist
        /\ hist[Head(queue[q]).job.id].status = "running"

\* ------------------------------------------------------------------------
\* The migrate runner and the files of the capture it names
\* ------------------------------------------------------------------------
\* what the directory DUMP_ROOT/dump_name can hold: nothing yet of a capture
\* that is still walking, was cancelled or failed; tree.json alone when the
\* second write failed; both files
DumpDirs == {{}, {"tree.json"}, {"tree.json", "manifest.json"}}

\* the orchestrator with jobs that name one capture directory
InitFiles ==
    /\ Constructed(MaxJobs)
    /\ NoFolders
    /\ NoMigration
    /\ NoProperties
    /\ flavor = "none"
    /\ remote = <<>>
    /\ cancel_cb = FALSE
    /\ stack = <<>>
    /\ calls = <<>>
    /\ tree = <<>>
    /\ manifest = <<>>
    /\ phase = "idle"
    /\ files \in DumpDirs
    /\ downloads = <<>>
    /\ raised = "none"

\* the test of the files as it would be if it forgot manifest.json
MutDumpFilesExist == "tree.json" \in files

\* the test of the migrate runner: os.path.exists of both files
DumpFilesExist == {"tree.json", "manifest.json"} \subseteq files

\* the first step of the runner of a migrate job: FileNotFoundError is
\* raised when a file is missing, and the engine is called when both exist
MigrateStart(id) ==
    /\ id \in DOMAIN job
    /\ job[id].type = "migrate"
    /\ WorkerStart(id)
    /\ \/ CanceledBeforeStart(id)
       \/ (task'[id] = "engine") = DumpFilesExist

\* the capture that owns the directory ends its walk and writes both files
\* (dump_page_tree and dump_database_tree write them in one step of the loop)
CaptureWritten ==
    /\ files = {}
    /\ files' = {"tree.json", "manifest.json"}
    /\ UNCHANGED <<notCapture, flavor, remote, cancel_cb, stack, calls, tree,
                   manifest, phase, downloads, raised>>

NextFiles ==
    \/ enqueue_migrate
    \/ \E id \in JobIds : cancel(id)
    \/ \E id \in JobIds : remove(id)
    \/ \E id \in JobIds : MigrateStart(id)
    \/ \E id \in JobIds : EngineStep(id)
    \/ \E id \in JobIds : ApplyTick(id)
    \/ \E id \in JobIds : CleanupWake(id)
    \/ CaptureWritten

SpecFiles == InitFiles /\ [][NextFiles]_vars

\* the capture directory lacks tree.json or manifest.json
Lacking == \E f \in {"tree.json", "manifest.json"} : f \notin files

\* the runner of a job leaves its first position in this step
Begins(id) ==
    /\ id \in DOMAIN task
    /\ task[id] = "ready"
    /\ task'[id] # "ready"

\* C34 as stated: a migrate job whose runner begins while the capture
\* directory lacks one of the two files gets status error and a message in
\* that step and the engine is not called, whatever was done to the job
C34_MissingFilesEndInError ==
    [][\A id \in JobIds :
           Begins(id) /\ Lacking
               => /\ job'[id].status = "error"
                  /\ job'[id].message # ""
                  /\ task'[id] # "engine"]_vars

\* C34: a migrate job that was not cancelled before its runner begins,
\* and whose runner begins while the capture directory lacks one of the two
\* files, gets status error and a message in that step without calling the
\* engine; a job cancelled before keeps status canceled; in both cases the
\* engine, which makes every remote call, is never called later and the
\* status error is kept
C34_MissingFilesEndInErrorUnlessCanceled ==
    [][\A id \in JobIds :
           /\ Begins(id) /\ Lacking
                  => /\ task'[id] # "engine"
                     /\ IF job[id].cancel
                        THEN job'[id] = job[id] /\ job[id].status = "canceled"
                        ELSE /\ job'[id].status = "error"
                             /\ job'[id].message # ""
           /\ id \in DOMAIN task /\ task[id] \notin {"ready", "engine"}
                  => task'[id] # "engine"
           /\ id \in DOMAIN job /\ job[id].status = "error"
                  => job'[id].status = "error" /\ job'[id].message # ""]_vars

\* a migrate job that was not cancelled has status error while the
\* directory it names still lacks a file: its runner found the file missing
C34_Witness ==
    \E id \in jobs :
        /\ job[id].status = "error"
        /\ ~job[id].cancel
        /\ task[id] = "sleep"
        /\ files = {"tree.json"}

\* C35: a job whose cancel flag is set has status canceled or error, never
\* queued, running or done, and no step gives it status done: the runner
\* whose engine call returns after cancel does not mark the job done
C35_CancelFlagExcludesDone ==
    /\ [](\A id \in DOMAIN job :
              job[id].cancel => job[id].status \in Terminal \ {"done"})
    /\ [][\A id \in DOMAIN job :
              job[id].cancel => job'[id].status # "done"]_vars

\* a job was canceled while its engine ran, the engine returned all the
\* same, and its last progress report has been applied: the runner has
\* ended and the status is still canceled
C35_Witness ==
    \E id \in DOMAIN job :
        /\ job[id].cancel
        /\ job[id].status = "canceled"
        /\ job[id].progress = 100
        /\ task[id] = "finished"

\* the jobs of a type whose runner is inside its engine call
Executing(typ) ==
    {id \in DOMAIN task : job[id].type = typ /\ task[id] = "engine"}

\* C36: for every job type, the runners that are inside their engine call
\* (begun, and neither returned nor aborted), those of jobs that cancel
\* marked canceled included, are never more than the limit of the type
C36_ExecutingWithinLimit ==
    \A typ \in JobTypes : Cardinality(Executing(typ)) <= LimitOf(typ)

\* C37: a step finds no job that has left the live table to put a
\* job_update event of it in a queue or to change its history entry
C37_NoUpdateAfterRemoval ==
    [][\A id \in DOMAIN job :
           id \notin jobs
               => /\ \A q \in DOMAIN queue :
                         ~(/\ Puts(q)
                           /\ Put(q).kind = "job_update"
                           /\ Put(q).job.id = id)
                  /\ hist'[id] = hist[id]]_vars

\* C39: no step puts an event in a queue that was unsubscribed, and a step
\* that puts a job_added or job_update event in one subscribed queue puts
\* it in every subscribed queue
C39_NothingAfterUnsubscribe ==
    [][/\ \A q \in DOMAIN queue : q \notin subscribers => ~Puts(q)
       /\ \A q \in subscribers :
              Puts(q) /\ Put(q).kind \in {"job_added", "job_update"}
                  => \A other \in subscribers :
                         Puts(other) /\ Put(other) = Put(q)]_vars

Root == 0
\* the blocks below the root
Blocks == 1..MaxNodes
Nodes == {Root} \cup Blocks

\* the trees the remote can hold: a parent for every block
ParentMaps == {par \in [Blocks -> Nodes] : \A b \in Blocks : par[b] < b}

\* the orders the remote can keep siblings in
Ranks == Permutations(Blocks)

Kids(par, p) == {b \in Blocks : par[b] = p}

\* the children of p in the order of the remote
Siblings(par, rank, p) ==
    LET k == Kids(par, p)
        n == Cardinality(k)
    IN IF n = 0 THEN <<>>
       ELSE CHOOSE s \in [1..n -> k] :
                \A i, j \in 1..n : i < j => rank[s[i]] < rank[s[j]]

\* a block as a list call returns it; asset: its type is one of ASSET_TYPES
\* and it carries the url of a file
Block(par, assets, b) ==
    [id |-> b, has_children |-> Kids(par, b) # {}, asset |-> b \in assets]

\* the result pages of a list of items, size items a page; an empty list is
\* one empty page
Paginate(s, size) ==
    LET n == IF Len(s) = 0 THEN 1 ELSE (Len(s) + size - 1) \div size
    IN [i \in 1..n |-> SubSeq(s, (i - 1) * size + 1, Min(i * size, Len(s)))]

RemoteOf(par, rank, size, assets) ==
    [p \in Nodes |->
        LET sib == Siblings(par, rank, p)
        IN Paginate([i \in 1..Len(sib) |-> Block(par, assets, sib[i])], size)]

Remotes ==
    {RemoteOf(par, rank, size, assets) :
        par \in ParentMaps, rank \in Ranks, size \in 1..MaxPageSize,
        assets \in SUBSET (1..MaxAssets)}

\* the answer of blocks.children.list (and of databases.query for the root
\* database) to a cursor: the first page for no cursor
ListAnswer(p, cursor) ==
    LET k == IF cursor = None THEN 1 ELSE cursor[1]
        pages == remote[p]
    IN [results |-> pages[k],
        has_more |-> k < Len(pages),
        next_cursor |-> IF k < Len(pages) THEN Some(k + 1) ELSE None]

\* b.get("type"): a block with a file to download is of an asset type
TypeOf(b) == IF b.asset THEN "image" ELSE "paragraph"

\* snap and man of walk_children, block_data and manifest_node of
\* _process_entry_blocks (type and payload left out; a file record is named
\* by the block it was saved for)
Snap(b, children) ==
    [id |-> b.id, type |-> TypeOf(b), has_children |-> b.has_children,
     children |-> children]

\* man as it would be if it did not copy has_children of the block
MutMan(b) ==
    [id |-> b.id, type |-> TypeOf(b), has_children |-> FALSE,
     files |-> IF b.asset THEN <<b.id>> ELSE <<>>]

Man(b) ==
    [id |-> b.id, type |-> TypeOf(b), has_children |-> b.has_children,
     files |-> IF b.asset THEN <<b.id>> ELSE <<>>]

\* snapshot_children.append(snap) as it would be if it put the item first
MutAddChild(acc, snap) == <<snap>> \o acc

\* snapshot_children.append(snap), content_blocks.append(block_data)
AddChild(acc, snap) == Append(acc, snap)

\* a call of walk_children ("walk"), of _process_entry_blocks ("entry") or
\* the body of dump_database_tree ("query") at its start; dl is its list
\* "downloads"
Frame(kind, parent) ==
    [kind |-> kind, parent |-> parent, cursor |-> None, pos |-> "call",
     acc |-> <<>>, rest |-> <<>>, more |-> FALSE, next |-> None,
     nodes |-> <<>>, dl |-> {}]

Top == stack[Len(stack)]
SetTop(f) == [stack EXCEPT ![Len(stack)] = f]

\* the end of the loop body for block b whose children are known
Record(f, b, children, childNodes) ==
    [f EXCEPT !.acc = AddChild(@, Snap(b, children)),
              !.rest = Tail(@),
              !.nodes = IF f.kind = "entry"
                        THEN Append(@ \o childNodes, Man(b))
                        ELSE @]

InitDump ==
    /\ Constructed(0)
    /\ NoFolders
    /\ NoMigration
    /\ NoProperties
    /\ flavor \in {"page", "database"}
    /\ remote \in Remotes
    /\ cancel_cb = FALSE
    /\ stack = <<>>
    /\ calls = [p \in Nodes |-> <<>>]
    /\ tree = None
    /\ manifest = <<>>
    /\ phase = "start"
    /\ files = {}
    /\ downloads = <<>>
    /\ raised = "none"

\* an exception leaves the capture: CancelledError, a failed remote call or
\* the exception of a download
Abort(ph, err) ==
    /\ phase' = ph
    /\ raised' = err
    /\ stack' = <<>>
    /\ UNCHANGED <<notCapture, flavor, remote, cancel_cb, calls, tree, manifest,
                   files, downloads>>

\* the root is fetched (_get_page, get_database) and the walk begins
FetchRoot ==
    /\ phase = "start"
    /\ phase' = "walking"
    /\ stack' = <<Frame(IF flavor = "page" THEN "walk" ELSE "query", Root)>>
    /\ UNCHANGED <<notCapture, flavor, remote, cancel_cb, calls, tree, manifest,
                   files, downloads, raised>>

\* a remote call raises
RemoteFails ==
    /\ \/ phase = "start"
       \/ /\ phase = "walking"
          /\ Top.pos = "call"
          /\ ~(Top.kind \in {"walk", "query"} /\ cancel_cb)
    /\ Abort("failed", "remote")

\* check_cancel() and one _list_children call of walk_children; one
\* _list_children call of _process_entry_blocks, which checks nothing
ListChildren ==
    /\ phase = "walking"
    /\ Top.kind \in {"walk", "entry"}
    /\ Top.pos = "call"
    /\ IF Top.kind = "walk" /\ cancel_cb
       THEN Abort("cancelled", "CancelledError")
       ELSE LET res == ListAnswer(Top.parent, Top.cursor)
            IN /\ calls' = [calls EXCEPT ![Top.parent] = Append(@, res.results)]
               /\ stack' = SetTop([Top EXCEPT !.pos = "loop",
                                              !.rest = res.results,
                                              !.more = res.has_more,
                                              !.next = res.next_cursor])
               /\ UNCHANGED <<notCapture, flavor, remote, cancel_cb, tree,
                              manifest, phase, files, downloads, raised>>

\* the frame whose list "downloads" a block of the top frame is added to:
\* the list of the walk_children call itself, or the one list of
\* dump_database_tree handed down to _process_entry_blocks
ListOwner == IF Top.kind = "walk" THEN Len(stack) ELSE 1

\* the stack after asyncio.create_task(download_asset(...)) for block b
Scheduled(st, b) ==
    IF b.asset
    THEN [st EXCEPT ![ListOwner].dl = @ \cup {b.id}]
    ELSE st

\* one turn of "for b in res.get('results', [])": the download of an asset
\* is scheduled; a block with children starts a nested call, another block
\* is recorded at once
VisitBlock ==
    /\ phase = "walking"
    /\ Top.kind \in {"walk", "entry"}
    /\ Top.pos = "loop"
    /\ Top.rest # <<>>
    /\ LET b == Head(Top.rest)
       IN /\ downloads' = IF b.asset THEN downloads @@ (b.id :> "running")
                          ELSE downloads
          /\ IF b.has_children
             THEN /\ stack' = Append(Scheduled(stack, b), Frame(Top.kind, b.id))
                  /\ UNCHANGED manifest
             ELSE /\ stack' = Scheduled(SetTop(Record(Top, b, <<>>, <<>>)), b)
                  /\ manifest' = IF Top.kind = "walk"
                                 THEN Append(manifest, Man(b))
                                 ELSE manifest
    /\ UNCHANGED <<notCapture, flavor, remote, cancel_cb, calls, tree, phase,
                   files, raised>>

\* a download_asset task ends: the file is saved, or the request fails and
\* the task holds the exception
DownloadEnds ==
    \E b \in DOMAIN downloads : \E how \in {"done", "failed"} :
        /\ downloads[b] = "running"
        /\ downloads' = [downloads EXCEPT ![b] = how]
        /\ UNCHANGED <<notCapture, flavor, remote, cancel_cb, stack, calls, tree,
                       manifest, phase, files, raised>>

\* the top call returns its list to its caller (the end of the loop body of
\* the caller), or the walk of the root page is over
ReturnFromCall ==
    IF Len(stack) = 1
    THEN /\ tree' = Some([id |-> Root, type |-> "root", children |-> Top.acc])
         /\ phase' = "walked"
         /\ stack' = <<>>
         /\ UNCHANGED manifest
    ELSE LET caller == stack[Len(stack) - 1]
             below == SubSeq(stack, 1, Len(stack) - 2)
             b == Head(caller.rest)
         IN /\ UNCHANGED <<tree, phase>>
            /\ IF caller.kind = "query"
               THEN /\ stack' = Append(below,
                           [caller EXCEPT
                               !.acc = Append(@, [id |-> b.id, content |-> Top.acc]),
                               !.rest = Tail(@)])
                    /\ manifest' = Append(manifest,
                           [id |-> b.id, nodes |-> Top.nodes])
               ELSE /\ stack' = Append(below,
                           Record(caller, b, Top.acc, Top.nodes))
                    /\ manifest' = IF caller.kind = "walk"
                                   THEN Append(manifest, Man(b))
                                   ELSE manifest

\* the results of a page are used up: the next page is asked for, or the
\* call awaits its downloads, or it returns
EndOfPage ==
    /\ phase = "walking"
    /\ Top.kind \in {"walk", "entry"}
    /\ Top.pos = "loop"
    /\ Top.rest = <<>>
    /\ UNCHANGED <<notCapture, flavor, remote, cancel_cb, calls, files,
                   downloads, raised>>
    /\ IF Top.more
       THEN /\ stack' = SetTop([Top EXCEPT !.pos = "call", !.cursor = Top.next])
            /\ UNCHANGED <<tree, manifest, phase>>
       ELSE IF Top.dl # {}
       THEN /\ stack' = SetTop([Top EXCEPT !.pos = "gather"])
            /\ UNCHANGED <<tree, manifest, phase>>
       ELSE ReturnFromCall

\* snapshot_root of dump_database_tree
DatabaseDone ==
    /\ tree' = Some([id |-> Root, type |-> "database", entries |-> Top.acc])
    /\ phase' = "walked"
    /\ stack' = <<>>
    /\ UNCHANGED manifest

\* "await asyncio.gather(*downloads)" is resumed: with the exception of the
\* first download that failed, or with every download done
Gather ==
    /\ phase = "walking"
    /\ Top.pos = "gather"
    /\ IF \E b \in Top.dl : downloads[b] = "failed"
       THEN Abort("failed", "download")
       ELSE /\ \A b \in Top.dl : downloads[b] = "done"
            /\ IF Top.kind = "query" THEN DatabaseDone ELSE ReturnFromCall
            /\ UNCHANGED <<notCapture, flavor, remote, cancel_cb, calls, files,
                           downloads, raised>>

\* one round of the query loop of dump_database_tree
QueryDatabase ==
    /\ phase = "walking"
    /\ Top.kind = "query"
    /\ Top.pos = "call"
    /\ IF cancel_cb
       THEN Abort("cancelled", "CancelledError")
       ELSE LET res == ListAnswer(Root, Top.cursor)
            IN /\ calls' = [calls EXCEPT ![Root] = Append(@, res.results)]
               /\ stack' = SetTop([Top EXCEPT
                              !.rest = @ \o res.results,
                              !.cursor = res.next_cursor,
                              !.pos = IF res.has_more THEN "call" ELSE "loop"])
               /\ UNCHANGED <<notCapture, flavor, remote, cancel_cb, tree,
                              manifest, phase, files, downloads, raised>>

\* one turn of "for i, entry in enumerate(all_entries)" up to the call of
\* _process_entry_blocks
VisitEntry ==
    /\ phase = "walking"
    /\ Top.kind = "query"
    /\ Top.pos = "loop"
    /\ Top.rest # <<>>
    /\ IF cancel_cb
       THEN Abort("cancelled", "CancelledError")
       ELSE /\ stack' = Append(stack, Frame("entry", Head(Top.rest).id))
            /\ UNCHANGED <<notCapture, flavor, remote, cancel_cb, calls, tree,
                           manifest, phase, files, downloads, raised>>

\* every entry is processed: the downloads are awaited if there are any,
\* and snapshot_root is built
FinishEntries ==
    /\ phase = "walking"
    /\ Top.kind = "query"
    /\ Top.pos = "loop"
    /\ Top.rest = <<>>
    /\ IF Top.dl # {}
       THEN /\ stack' = SetTop([Top EXCEPT !.pos = "gather"])
            /\ UNCHANGED <<tree, manifest, phase>>
       ELSE DatabaseDone
    /\ UNCHANGED <<notCapture, flavor, remote, cancel_cb, calls, files,
                   downloads, raised>>

\* tree.json and then manifest.json are written with open(..., "w") and
\* json.dump
WriteFiles ==
    /\ phase = "walked"
    /\ files' = {"tree.json", "manifest.json"}
    /\ phase' = "written"
    /\ UNCHANGED <<notCapture, flavor, remote, cancel_cb, stack, calls, tree,
                   manifest, downloads, raised>>

\* The writing fails or the process is stopped in it: before tree.json is
\* created, after tree.json is created and before manifest.json is, or in
\* the writing of manifest.json.  Nothing removes what was created.
WriteFails ==
    /\ phase = "walked"
    /\ \E made \in {{}, {"tree.json"}, {"tree.json", "manifest.json"}} :
           files' = made
    /\ phase' = "failed"
    /\ raised' = "write"
    /\ UNCHANGED <<notCapture, flavor, remote, cancel_cb, stack, calls, tree,
                   manifest, downloads>>

\* JobManager.cancel sets the job's cancel_event while the capture runs
SetCancel ==
    /\ phase \in {"start", "walking"}
    /\ ~cancel_cb
    /\ cancel_cb' = TRUE
    /\ UNCHANGED <<notCapture, captureVars>>

NextDump ==
    \/ FetchRoot
    \/ RemoteFails
    \/ ListChildren
    \/ VisitBlock
    \/ DownloadEnds
    \/ EndOfPage
    \/ Gather
    \/ QueryDatabase
    \/ VisitEntry
    \/ FinishEntries
    \/ WriteFiles
    \/ WriteFails
    \/ SetCancel

SpecDump == InitDump /\ [][NextDump]_vars

\* ------------------------------------------------------------------------
\* Properties of the capture
\* ------------------------------------------------------------------------
RECURSIVE Concat(_)
\* the items of a sequence of pages, page after page
Concat(pages) ==
    IF Len(pages) = 0 THEN <<>> ELSE Head(pages) \o Concat(Tail(pages))

Ids(s) == [i \in 1..Len(s) |-> s[i].id]

RECURSIVE ChildLists(_)
\* <<id, ids of the recorded children>> for every node of a recorded list,
\* at every depth
ChildLists(snaps) ==
    IF Len(snaps) = 0 THEN {}
    ELSE LET h == Head(snaps)
         IN {<<h.id, Ids(h.children)>>} \cup ChildLists(h.children)
                \cup ChildLists(Tail(snaps))

\* <<id, ids of the recorded children>> for every parent of the tree document
RecordedLists ==
    LET doc == tree[1]
    IN IF flavor = "page"
       THEN {<<Root, Ids(doc.children)>>} \cup ChildLists(doc.children)
       ELSE {<<Root, Ids(doc.entries)>>} \cup
            UNION {{<<doc.entries[i].id, Ids(doc.entries[i].content)>>}
                      \cup ChildLists(doc.entries[i].content) :
                   i \in 1..Len(doc.entries)}

\* C10: in the tree document of a page capture and of a database capture, the
\* children recorded for every visited parent (and the entries recorded for
\* the database) are the items of the result pages its list calls returned,
\* page after page and in the order within each page: none dropped,
\* duplicated or moved.
C10_ChildrenInCallOrder ==
    phase = "walked" =>
        \A p \in Nodes : calls[p] # <<>> =>
            /\ \E pr \in RecordedLists : pr[1] = p
            /\ \A pr \in RecordedLists :
                   pr[1] = p => pr[2] = Ids(Concat(calls[p]))

\* a capture is complete in which a block below the root had its children
\* returned in two pages or more
C10_Witness ==
    /\ phase = "walked"
    /\ \E p \in Blocks :
          /\ Len(calls[p]) >= 2
          /\ Len(Concat(calls[p])) >= 2
\* C11: in every state of a capture, whatever ended it, the capture directory
\* holds both tree.json and manifest.json or neither of them.
C11_TreeAndManifestTogether ==
    ("tree.json" \in files) <=> ("manifest.json" \in files)

\* C12: a capture whose download of an asset failed is not ended by the
\* exception of that download.
C12_DownloadFailureTolerated ==
    ~(phase = "failed" /\ raised = "download")
\* ========================================================================
\* The directory of a capture (dump_name, ensure_dir)
\* ========================================================================
\* Several captures, started by jobs or by POST /dump, each naming and
\* creating its directory under DUMP_ROOT and later writing into it.

\* the roots captures are started for
Roots == 1..MaxRoots

\* the characters of a title: a letter, a blank and a character that is
\* neither a word character nor "-"
Chars == {"a", " ", "/"}

\* the titles a root can have
Titles == UNION {[1..n -> Chars] : n \in 0..MaxTitle}

\* [:60] of safe_slug
SlugLimit == 60

\* text.strip()
RECURSIVE Strip(_)
Strip(s) ==
    IF s = <<>> THEN s
    ELSE IF Head(s) = " " THEN Strip(Tail(s))
    ELSE IF s[Len(s)] = " " THEN Strip(SubSeq(s, 1, Len(s) - 1))
    ELSE s

\* re.sub(r"[^\w\-]+", "_", text): every longest run of characters that are
\* neither word characters nor "-" becomes one "_"
RECURSIVE Squash(_, _)
Squash(s, inRun) ==
    IF s = <<>> THEN <<>>
    ELSE IF Head(s) \in {" ", "/"}
         THEN (IF inRun THEN <<>> ELSE <<"_">>) \o Squash(Tail(s), TRUE)
         ELSE <<Head(s)>> \o Squash(Tail(s), FALSE)

safe_slug(text, default) ==
    LET t == Squash(Strip(text), FALSE)
        cut == SubSeq(t, 1, Min(Len(t), SlugLimit))
    IN IF cut = <<>> THEN default ELSE cut

\* the title the capture computes from what the remote returned:
\* _page_title_from_properties, or the joined title of the database
TitleOf(flav, text) ==
    IF text # <<>> THEN text
    ELSE IF flav = "page" THEN <<"u", "n", "t", "i", "t", "l", "e", "d">>
    ELSE <<"u", "n", "t", "i", "t", "l", "e", "d", "_", "d", "b">>

\* dump_name: the slug of the title and the time of day to the second
DumpName(flav, text, now) ==
    <<safe_slug(TitleOf(flav, text),
                IF flav = "page" THEN <<"p", "a", "g", "e">>
                ELSE <<"d", "a", "t", "a", "b", "a", "s", "e">>),
      now>>

InitFolders ==
    /\ Constructed(0)
    /\ NoCapture
    /\ NoMigration
    /\ NoProperties
    /\ clock = 0
    /\ titles \in [Roots -> Titles]
    /\ runs = <<>>
    /\ folders = {}

\* a second passes on the clock of datetime.now()
ClockTick ==
    /\ clock < MaxClock
    /\ clock' = clock + 1
    /\ UNCHANGED <<orchVars, dumpVars, migVars, propVars, titles, runs, folders>>

\* a capture of a root is started and comes to ensure_dir(root_dir):
\* mkdir(parents=True, exist_ok=True) never refuses a directory that exists
PrepareFolder ==
    \E root \in Roots : \E flav \in {"page", "database"} :
        /\ Len(runs) < MaxRuns
        /\ LET name == DumpName(flav, titles[root], clock)
           IN /\ runs' = Append(runs, [root |-> root, flavor |-> flav,
                                        dump_name |-> name, written |-> FALSE])
              /\ folders' = folders \cup {name}
        /\ UNCHANGED <<orchVars, dumpVars, migVars, propVars, clock, titles>>

\* a capture writes tree.json and manifest.json into its directory
WriteRun ==
    \E i \in DOMAIN runs :
        /\ ~runs[i].written
        /\ runs' = [runs EXCEPT ![i].written = TRUE]
        /\ UNCHANGED <<orchVars, dumpVars, migVars, propVars, clock, titles, folders>>

NextFolders ==
    \/ ClockTick
    \/ PrepareFolder
    \/ WriteRun

SpecFolders == InitFolders /\ [][NextFolders]_vars

\* C13: no two captures write into the same directory.
C13_OneWriterPerDirectory ==
    \A i, j \in DOMAIN runs :
        (i # j /\ runs[i].written /\ runs[j].written)
            => runs[i].dump_name # runs[j].dump_name
\* ========================================================================
\* The materialization of a capture (NotionMigrateService)
\* ========================================================================
\* One run of migrate_under or of migrate_database_under, a step per remote
\* call and per turn of its loops that can see the cancel flag change.  The
\* two requests of an upload (_create_file_upload, _send_file_upload) are
\* one call, a call under notion_retry is one call with all its attempts,
\* and a remote call fails at most MaxFaults times in a run.

\* the batch ceiling of blocks.children.append
APPEND_LIMIT == 100

\* the lengths of the flat runs of regular nodes: around the multiples of
\* the ceiling
RunLengths == {len \in 0..MaxRun : len % APPEND_LIMIT \in {0, 1, APPEND_LIMIT - 1}}

\* the types of a source node: a child_page, a type of ASSET_BLOCK_TYPES, or
\* any other
Kinds == {"regular", "child_page", "asset"}

\* the local paths of the asset map
Paths == 1..MaxPaths

\* what os.path.getsize finds for a path: a file within the ceiling, no
\* file (OSError), a file above upload_max_bytes
DiskStates == {"ok", "missing", "too_large"}

KindMaps ==
    {k \in [Blocks -> Kinds] : \A b \in Blocks : k[b] = "asset" => b <= MaxAssets}

\* tree.json: small trees of every shape and flat runs of regular nodes;
\* the children of a node are listed in the order of their ids
TreeSources ==
    {[n |-> MaxNodes, par |-> par, kind |-> kind] :
        par \in ParentMaps, kind \in KindMaps}
RunSources ==
    {[n |-> len, par |-> [b \in 1..len |-> Root],
      kind |-> [b \in 1..len |-> "regular"]] : len \in RunLengths}

\* node["children"], and the entries of a database for the root
Children(p) ==
    LET IsChild(b) == source.par[b] = p
    IN IF source.n = 0 THEN <<>>
       ELSE SelectSeq([b \in 1..source.n |-> b], IsChild)

\* src_node.get("has_children") and src_node.get("children")
HasChildren(b) == \E c \in 1..source.n : source.par[c] = b

\* the ids of the remote: the target, the block or page created for a
\* source node, the database created, the k-th file upload
RunNo == IF first = None THEN 1 ELSE 2
Target == <<"target", RunNo, 0>>
NewId(b) == <<"new", RunNo, b>>
NewDb == <<"database", RunNo, 0>>
UploadId(k) == <<"upload", RunNo, k>>

\* the call of a coroutine at its start: _append_children_recursive
\* ("recursive": rest is what is left of src_children), of
\* _process_regular_blocks_batch ("batch": rest is regular_blocks) or the
\* body of migrate_database_under ("database": rest is what is left of
\* db_entries)
Call(fn, parent, nodes) ==
    [fn |-> fn, parent |-> parent, rest |-> nodes, i |-> 0,
     stage |-> "enter", k |-> 1, payloads |-> <<>>, results |-> <<>>]

MTop == mstack[Len(mstack)]
SetMTop(f) == [mstack EXCEPT ![Len(mstack)] = f]
Popped == SubSeq(mstack, 1, Len(mstack) - 1)

\* an entry of the log: a remote call (append: the batch call of
\* _append_children, append_one: its call on the retry path, create_page,
\* upload, get_page, get_database, create_database, create_entry), its
\* outcome and,
\* for an upload, its id; or what _upload_to_notion returned for a node
\* ("reference"), or a call of _append_children_recursive for the children
\* of a node ("descend")
Event(op, on, items, ok, ref) ==
    [op |-> op, on |-> on, items |-> items, ok |-> ok, ref |-> ref]

\* ---------------------------------------------------------------------------
\* The percentage of a walk: Python float arithmetic
\* ---------------------------------------------------------------------------

\* the bits of the significand of a Python float (IEEE 754 binary64)
Precision == 53

\* the significand is multiplied in digits of Limb bits
Limb == 13

\* A float x > 0 is [m |-> its Precision significand bits, first bit 1 first,
\* e |-> its exponent]: x = m * 2^(e - (Precision - 1)).

\* (r * 2^i) % t for r < t < 2^8 and i < 2 * 26
Rem(r, t, i) ==
    LET h == i \div 2
    IN (r * (((2^h % t) * (2^(i - h) % t)) % t)) % t

\* the next n bits of the binary expansion of r / t for r < t, and the
\* remainder left after them
QuotientBits(r, t, n) ==
    [bits |-> [i \in 1..n |-> IF 2 * Rem(r, t, i - 1) >= t THEN 1 ELSE 0],
     rem |-> Rem(r, t, n)]

RECURSIVE BitsOf(_)
\* the bits of the integer n >= 0, first bit 1 first
BitsOf(n) == IF n = 0 THEN <<>> ELSE Append(BitsOf(n \div 2), n % 2)

\* the last n bits of the integer v
LowBits(v, n) == [i \in 1..n |-> (v \div 2^(n - i)) % 2]

RECURSIVE ValueOf(_)
\* the integer of a sequence of bits
ValueOf(bits) ==
    IF bits = <<>> THEN 0
    ELSE 2 * ValueOf(SubSeq(bits, 1, Len(bits) - 1)) + bits[Len(bits)]

RECURSIVE Scaled(_, _, _)
\* the bits of m * c + carry for the bits m and the integers c and carry
Scaled(m, c, carry) ==
    IF m = <<>> THEN BitsOf(carry)
    ELSE LET n == Min(Len(m), Limb)
             v == ValueOf(SubSeq(m, Len(m) - n + 1, Len(m))) * c + carry
         IN Scaled(SubSeq(m, 1, Len(m) - n), c, v \div 2^n) \o LowBits(v % 2^n, n)

\* round to nearest, ties to even: m are the first Precision bits of the
\* exact result, half tells where the rest of it lies about one half of the
\* last place
RoundHalfEven(m, half, e) ==
    LET up == half = "above" \/ (half = "tie" /\ m[Precision] = 1)
        zeros == {i \in 1..Precision : m[i] = 0}
        k == CHOOSE i \in zeros : \A j \in zeros : j <= i
    IN IF ~up THEN [m |-> m, e |-> e]
       ELSE IF zeros = {}
       THEN [m |-> [i \in 1..Precision |-> IF i = 1 THEN 1 ELSE 0], e |-> e + 1]
       ELSE [m |-> [i \in 1..Precision |->
                      IF i < k THEN m[i] ELSE IF i = k THEN 1 ELSE 0],
             e |-> e]

\* the exponent of d / t for integers d, t >= 1 below 2^8
Exponent(d, t) ==
    CHOOSE e \in -8..8 :
        /\ IF e >= 0 THEN t * 2^e <= d ELSE t <= d * 2^(0 - e)
        /\ IF e + 1 >= 0 THEN d < t * 2^(e + 1) ELSE d * 2^(0 - e - 1) < t

\* the float d / t for integers d, t >= 1
FloatDiv(d, t) ==
    LET e == Exponent(d, t)
        n0 == IF e >= 0 THEN d ELSE d * 2^(0 - e)
        t0 == IF e >= 0 THEN t * 2^e ELSE t
        q == QuotientBits(n0 - t0, t0, Precision - 1)
        half == IF 2 * q.rem > t0 THEN "above"
                ELSE IF 2 * q.rem = t0 THEN "tie" ELSE "below"
    IN RoundHalfEven(<<1>> \o q.bits, half, e)

\* the float f * c for a float f and an integer c >= 1
FloatMul(f, c) ==
    LET p == Scaled(f.m, c, 0)
        rest == SubSeq(p, Precision + 1, Len(p))
        half == IF rest = <<>> THEN "below"
                ELSE IF rest[1] = 0 THEN "below"
                ELSE IF \E i \in 2..Len(rest) : rest[i] = 1 THEN "above"
                ELSE "tie"
    IN RoundHalfEven(SubSeq(p, 1, Precision), half, f.e + Len(p) - Precision)

\* int(f) for a float f > 0 below 2^Precision
Floor(f) == IF f.e < 0 THEN 0 ELSE ValueOf(SubSeq(f.m, 1, f.e + 1))

\* pct = int(min(99, (counter["done"] / max(1, total)) * 100))
Pct(done, all) ==
    IF done = 0 THEN 0
    ELSE Min(99, Floor(FloatMul(FloatDiv(done, Max(1, all)), 100)))

RECURSIVE Within(_, _)
\* node b is p or lies below p
Within(b, p) ==
    IF b = p THEN TRUE
    ELSE IF b = Root THEN FALSE
    ELSE Within(source.par[b], p)

\* sum(count_nodes(c) for c in children) for the children of p: the nodes
\* below p
CountUnder(p) == Cardinality({b \in 1..source.n : b # p /\ Within(b, p)})

\* the percentages reported for the nodes counted from a + 1 to b
Pcts(a, b) == [k \in 1..(b - a) |-> Pct(a + k, total)]

\* the state a job's runner is left in by the engine
JobStatus ==
    CASE mphase = "failed" -> "error"
      [] mphase = "cancelled" -> "canceled"
      [] mphase = "done" -> IF cancel_cb THEN "canceled" ELSE "done"
      [] OTHER -> "running"

InitMigrate ==
    /\ Constructed(0)
    /\ NoCapture
    /\ NoFolders
    /\ NoProperties
    /\ mflavor \in {"page", "database"}
    /\ target \in {"page", "database", "missing"}
    /\ mflavor = "page" => target = "page"
    /\ source \in TreeSources \cup RunSources
    /\ source \in RunSources => mflavor = "page"
    /\ \E mapped \in SUBSET {b \in 1..source.n : source.kind[b] = "asset"} :
           asset_map = [b \in mapped |-> [local_path |-> 1, original |-> TRUE]]
    /\ captioned \in BOOLEAN
    /\ captioned => \E b \in 1..source.n : source.kind[b] = "asset"
    /\ disk \in [Paths -> DiskStates]
    /\ asset_map = <<>> => disk = [p \in Paths |-> "ok"]
    /\ first = None
    /\ mstack = <<>>
    /\ log = <<>>
    /\ upload_cache = <<>>
    /\ counter = 0
    /\ total = 0
    /\ reported = <<>>
    /\ faults = 0
    /\ mphase = "start"

\* the remote calls of a log
RemoteCalls(l) ==
    SelectSeq(l, LAMBDA e : e.op \notin {"descend", "reference"})

\* in a second materialization of the capture the remote answers its k-th
\* call as it answered the k-th call of the first
Replayed(ok) ==
    IF first = None THEN TRUE
    ELSE LET before == RemoteCalls(first[1])
             k == Len(RemoteCalls(log)) + 1
         IN IF k <= Len(before) THEN ok = before[k].ok ELSE TRUE

\* a remote call succeeds, or fails while failures are left
Outcome(ok) ==
    /\ ok \/ faults < MaxFaults
    /\ Replayed(ok)
    /\ faults' = IF ok THEN faults ELSE faults + 1

\* an exception leaves the engine: CancelledError of check_cancel, or the
\* ValueError or the failure of create_database in migrate_database_under
MAbort(ph) ==
    /\ mphase' = ph
    /\ mstack' = <<>>
    /\ UNCHANGED <<notMigration, cancel_cb, migInput, log, upload_cache, counter,
                   total, reported, faults>>

\* the call on top returns: to its caller, or out of migrate_under
Return ==
    /\ mstack' = Popped
    /\ mphase' = IF Len(mstack) = 1 THEN "done" ELSE mphase
    /\ reported' = IF Len(mstack) = 1 THEN Append(reported, 100) ELSE reported

\* migrate_under up to its call of _append_children_recursive, or
\* migrate_database_under up to its call of _check_target_type
StartMigration ==
    /\ mphase = "start"
    /\ mphase' = "running"
    /\ mstack' = IF mflavor = "page"
                 THEN <<Call("recursive", Target, Children(Root))>>
                 ELSE <<Call("database", Target, Children(Root))>>
    /\ total' = IF mflavor = "page" THEN Max(1, CountUnder(Root)) ELSE total
    /\ reported' = IF mflavor = "page" THEN <<1, 3>> ELSE <<1, 2>>
    /\ UNCHANGED <<notMigration, cancel_cb, migInput, log, upload_cache, counter,
                   faults>>

\* the regular nodes of s as they would be batched if a child_page did not
\* end the batch
MutRegularPrefix(s) ==
    LET IsRegular(b) == source.kind[b] # "child_page"
    IN SelectSeq(s, IsRegular)

\* the longest run of nodes at the head of s that are not child_page
RegularPrefix(s) ==
    LET pages == {j \in 1..Len(s) : source.kind[s[j]] = "child_page"}
    IN IF pages = {} THEN s
       ELSE SubSeq(s, 1, (CHOOSE x \in pages : \A y \in pages : x <= y) - 1)

\* the block built for an asset as it would be without the original file
\* name as its caption
MutPayload(b, upload) ==
    [node |-> b, file |-> IF source.kind[b] = "asset" THEN upload ELSE None,
     caption |-> IF source.kind[b] = "asset" /\ captioned THEN "source"
                 ELSE "none"]

\* the loop of _append_children_recursive up to its next call: the regular
\* nodes up to the next child_page or the end are regular_block_batch, which
\* is handed to _process_regular_blocks_batch; with nothing left the call
\* returns
CollectRegular ==
    /\ mphase = "running"
    /\ MTop.fn = "recursive"
    /\ IF MTop.rest = <<>> THEN TRUE
       ELSE source.kind[Head(MTop.rest)] # "child_page"
    /\ IF MTop.rest # <<>> /\ cancel_cb
       THEN MAbort("cancelled")
       ELSE LET regular_block_batch == RegularPrefix(MTop.rest)
                taken == {regular_block_batch[j] :
                              j \in 1..Len(regular_block_batch)}
                IsLeft(b) == b \notin taken
                left == SelectSeq(MTop.rest, IsLeft)
            IN /\ IF regular_block_batch = <<>>
                  THEN Return
                  ELSE /\ mstack' = Append(
                              SetMTop([MTop EXCEPT !.rest = left]),
                              Call("batch", MTop.parent, regular_block_batch))
                       /\ UNCHANGED <<mphase, reported>>
               /\ UNCHANGED <<notMigration, cancel_cb, migInput, log,
                              upload_cache, counter, total, faults>>

\* _process_child_page_block for the child_page at the head of the list:
\* the page is created and its children are created under it; a creation
\* that fails is logged and the loop goes on
ProcessChildPage ==
    /\ mphase = "running"
    /\ MTop.fn = "recursive"
    /\ MTop.rest # <<>>
    /\ source.kind[Head(MTop.rest)] = "child_page"
    /\ IF cancel_cb
       THEN MAbort("cancelled")
       ELSE \E ok \in BOOLEAN :
            LET b == Head(MTop.rest)
                down == ok /\ HasChildren(b)
                me == SetMTop([MTop EXCEPT !.rest = Tail(@)])
            IN /\ Outcome(ok)
               /\ log' = log \o <<Event("create_page", MTop.parent, <<b>>, ok, None)>>
                             \o (IF down
                                 THEN <<Event("descend", NewId(b), <<b>>, TRUE, None)>>
                                 ELSE <<>>)
               /\ counter' = counter + 1
               /\ reported' = IF ok THEN reported \o Pcts(counter, counter + 1)
                               ELSE reported
               /\ mstack' = IF down
                            THEN Append(me, Call("recursive", NewId(b), Children(b)))
                            ELSE me
               /\ UNCHANGED <<notMigration, cancel_cb, migInput, upload_cache,
                              total, mphase>>

\* chunk as it would be if the slice took one item more
MutChunk(f) == SubSeq(f.rest, f.i + 1, Min(f.i + APPEND_LIMIT + 1, Len(f.rest)))

\* chunk = regular_blocks[i:i + APPEND_LIMIT]
Chunk(f) == SubSeq(f.rest, f.i + 1, Min(f.i + APPEND_LIMIT, Len(f.rest)))

\* the head of "for i in range(0, len(regular_blocks), APPEND_LIMIT)"
NextChunk ==
    /\ mphase = "running"
    /\ MTop.fn = "batch"
    /\ MTop.stage = "enter"
    /\ IF MTop.i >= Len(MTop.rest)
       THEN /\ Return
            /\ UNCHANGED <<notMigration, cancel_cb, migInput, log, upload_cache,
                           counter, total, faults>>
       ELSE IF cancel_cb
       THEN MAbort("cancelled")
       ELSE /\ mstack' = SetMTop([MTop EXCEPT !.stage = "payload", !.k = 1,
                                              !.payloads = <<>>,
                                              !.results = <<>>])
            /\ UNCHANGED <<notMigration, cancel_cb, migInput, log, upload_cache,
                           counter, total, reported, faults, mphase>>

\* the block _node_to_block_payload builds for node b when
\* _upload_to_notion returned upload (None: nothing): an asset block has
\* the reference of the upload or none, and as its caption the caption of
\* the source, else the original file name of the asset map, else none
Payload(b, upload) ==
    IF source.kind[b] # "asset"
    THEN [node |-> b, file |-> None, caption |-> "none"]
    ELSE [node |-> b, file |-> upload,
          caption |-> IF captioned THEN "source"
                      ELSE IF b \in DOMAIN asset_map /\ asset_map[b].original
                           THEN "original"
                           ELSE "none"]

\* _upload_to_notion asks the remote: the path is not in the cache and
\* getsize finds a file within the ceiling
AsksRemote(b) ==
    /\ source.kind[b] = "asset"
    /\ b \in DOMAIN asset_map
    /\ asset_map[b].local_path \notin DOMAIN upload_cache
    /\ disk[asset_map[b].local_path] = "ok"

\* the cache as it would be if the upload were not kept
MutCached(cache, path, id) == cache

\* self._upload_cache[local_path] = upload_id
Cached(cache, path, id) == cache @@ (path :> id)

\* the number of uploads the remote has answered
Uploads == Len(SelectSeq(log, LAMBDA e : e.op = "upload"))

\* _node_to_block_payload for the node at position k of the chunk: in the
\* loop before the batch call, or on the retry path after check_cancel
BuildPayload ==
    /\ mphase = "running"
    /\ MTop.fn = "batch"
    /\ MTop.stage \in {"payload", "retry"}
    /\ IF MTop.stage = "retry" /\ cancel_cb
       THEN MAbort("cancelled")
       ELSE \E ok \in BOOLEAN :
            LET b == Chunk(MTop)[MTop.k]
                path == asset_map[b].local_path
                upload == IF source.kind[b] # "asset" \/ b \notin DOMAIN asset_map
                          THEN None
                          ELSE IF path \in DOMAIN upload_cache
                          THEN Some(upload_cache[path])
                          ELSE IF AsksRemote(b) /\ ok
                          THEN Some(UploadId(Uploads + 1))
                          ELSE None
                asked == IF AsksRemote(b)
                         THEN <<Event("upload", path, <<b>>, ok, upload)>>
                         ELSE <<>>
                used == IF source.kind[b] = "asset" /\ b \in DOMAIN asset_map
                        THEN <<Event("reference", path, <<b>>, TRUE, upload)>>
                        ELSE <<>>
                p == Payload(b, upload)
            IN /\ IF AsksRemote(b)
                  THEN Outcome(ok)
                  ELSE ok /\ UNCHANGED faults
               /\ upload_cache' = IF AsksRemote(b) /\ ok
                                  THEN Cached(upload_cache, path, upload[1])
                                  ELSE upload_cache
               /\ log' = log \o asked \o used
               /\ mstack' = SetMTop(
                      IF MTop.stage = "retry"
                      THEN [MTop EXCEPT !.payloads = <<p>>, !.stage = "single"]
                      ELSE [MTop EXCEPT
                               !.payloads = Append(@, p),
                               !.k = @ + 1,
                               !.stage = IF MTop.k = Len(Chunk(MTop))
                                         THEN "append" ELSE "payload"])
               /\ UNCHANGED <<notMigration, cancel_cb, migInput, counter, total,
                              reported, mphase>>

\* the batch call _append_children(parent_id, payload_chunk): its results
\* name the blocks created, or the one-by-one retry begins
AppendBatch ==
    /\ mphase = "running"
    /\ MTop.fn = "batch"
    /\ MTop.stage = "append"
    /\ \E ok \in BOOLEAN :
        LET chunk == Chunk(MTop)
        IN /\ Outcome(ok)
           /\ log' = Append(log, Event("append", MTop.parent, MTop.payloads, ok, None))
           /\ mstack' = SetMTop(
                  IF ok
                  THEN [MTop EXCEPT
                           !.results = [j \in 1..Len(chunk) |-> Some(NewId(chunk[j]))],
                           !.stage = "post", !.k = 1]
                  ELSE [MTop EXCEPT !.results = <<>>, !.stage = "retry", !.k = 1])
           /\ UNCHANGED <<notMigration, cancel_cb, migInput, upload_cache, counter,
                          total, reported, mphase>>

\* the call _append_children(parent_id, [single]) of the retry path:
\* results gets the block created, or {} when the call fails
AppendSingle ==
    /\ mphase = "running"
    /\ MTop.fn = "batch"
    /\ MTop.stage = "single"
    /\ \E ok \in BOOLEAN :
        LET chunk == Chunk(MTop)
            last == MTop.k = Len(chunk)
        IN /\ Outcome(ok)
           /\ log' = Append(log, Event("append_one", MTop.parent, MTop.payloads, ok,
                                       None))
           /\ mstack' = SetMTop([MTop EXCEPT
                  !.results = Append(@, IF ok THEN Some(NewId(chunk[MTop.k]))
                                        ELSE None),
                  !.stage = IF last THEN "post" ELSE "retry",
                  !.k = IF last THEN 1 ELSE @ + 1])
           /\ UNCHANGED <<notMigration, cancel_cb, migInput, upload_cache, counter,
                          total, reported, mphase>>

\* created as it would be if the result of the first node of the chunk were
\* taken for every node
MutResultAt(results, idx) == IF results = <<>> THEN None ELSE results[1]

\* created = results[idx] if idx < len(results) else {}
ResultAt(results, idx) == IF idx <= Len(results) THEN results[idx] ELSE None

\* created_id or parent_id as it would be if the parent were always taken
MutUnder(made, parent) == parent

\* created_id or parent_id
Under(made, parent) == IF made # None THEN made[1] ELSE parent

\* "for idx, src_node in enumerate(chunk)" up to its next call: the nodes
\* are counted, and the children of the next node that has children are
\* created under the block made for it, or under parent_id when there is
\* none; after the last node the next chunk is due
AfterAppend ==
    /\ mphase = "running"
    /\ MTop.fn = "batch"
    /\ MTop.stage = "post"
    /\ LET chunk == Chunk(MTop)
           parents == {j \in MTop.k..Len(chunk) : HasChildren(chunk[j])}
       IN IF parents = {}
          THEN /\ counter' = counter + (Len(chunk) - MTop.k + 1)
               /\ reported' = reported \o
                                  Pcts(counter, counter + (Len(chunk) - MTop.k + 1))
               /\ mstack' = SetMTop([MTop EXCEPT !.i = @ + APPEND_LIMIT,
                                                  !.stage = "enter"])
               /\ UNCHANGED log
          ELSE LET j == CHOOSE x \in parents : \A y \in parents : x <= y
                   under == Under(ResultAt(MTop.results, j), MTop.parent)
               IN /\ counter' = counter + (j - MTop.k + 1)
                  /\ reported' = reported \o
                                     Pcts(counter, counter + (j - MTop.k + 1))
                  /\ log' = Append(log, Event("descend", under, <<chunk[j]>>, TRUE, None))
                  /\ mstack' = Append(SetMTop([MTop EXCEPT !.k = j + 1]),
                                      Call("recursive", under, Children(chunk[j])))
    /\ UNCHANGED <<notMigration, cancel_cb, migInput, upload_cache, total, faults,
                   mphase>>

\* _check_target_type asks for the target as a page: the remote has it for
\* a page only
GetPage ==
    /\ mphase = "running"
    /\ MTop.fn = "database"
    /\ MTop.stage = "enter"
    /\ \E ok \in BOOLEAN :
        /\ ok => target = "page"
        /\ IF target = "page" THEN Outcome(ok) ELSE UNCHANGED faults
        /\ log' = Append(log, Event("get_page", Target, <<>>, ok, None))
        /\ mstack' = SetMTop([MTop EXCEPT !.stage = IF ok THEN "create"
                                                    ELSE "get_database"])
        /\ UNCHANGED <<notMigration, cancel_cb, migInput, upload_cache, counter,
                       total, reported, mphase>>

\* _check_target_type and its caller as they would be if a target found to
\* be a database were taken like a page
MutGetDatabase ==
    /\ mphase = "running"
    /\ MTop.fn = "database"
    /\ MTop.stage = "get_database"
    /\ \E ok \in BOOLEAN :
        /\ ok => target = "database"
        /\ IF target = "database" THEN Outcome(ok) ELSE UNCHANGED faults
        /\ log' = Append(log, Event("get_database", Target, <<>>, ok, None))
        /\ mphase' = IF ok THEN mphase ELSE "failed"
        /\ mstack' = IF ok THEN SetMTop([MTop EXCEPT !.stage = "create"])
                     ELSE <<>>
        /\ reported' = IF ok THEN reported ELSE Append(reported, 100)
        /\ UNCHANGED <<notMigration, cancel_cb, migInput, upload_cache, counter,
                       total>>

\* _check_target_type asks for the target as a database: with "database"
\* as with the ValueError of the failed call, migrate_database_under raises
\* ValueError
GetDatabase ==
    /\ mphase = "running"
    /\ MTop.fn = "database"
    /\ MTop.stage = "get_database"
    /\ \E ok \in BOOLEAN :
        /\ ok => target = "database"
        /\ IF target = "database" THEN Outcome(ok) ELSE UNCHANGED faults
        /\ log' = Append(log, Event("get_database", Target, <<>>, ok, None))
        /\ mphase' = "failed"
        /\ mstack' = <<>>
        /\ reported' = Append(reported, 100)
        /\ UNCHANGED <<notMigration, cancel_cb, migInput, upload_cache, counter,
                       total>>

\* check_cancel and create_database under the target: a failure is raised
\* again
CreateDatabase ==
    /\ mphase = "running"
    /\ MTop.fn = "database"
    /\ MTop.stage = "create"
    /\ IF cancel_cb
       THEN /\ mphase' = "cancelled"
            /\ mstack' = <<>>
            /\ reported' = Append(reported, 5)
            /\ UNCHANGED <<log, faults>>
       ELSE \E ok \in BOOLEAN :
            /\ Outcome(ok)
            /\ log' = Append(log, Event("create_database", Target, <<>>, ok, None))
            /\ mphase' = IF ok THEN mphase ELSE "failed"
            /\ mstack' = IF ok THEN SetMTop([MTop EXCEPT !.stage = "entries"])
                         ELSE <<>>
            /\ reported' = reported \o (IF ok THEN <<5, 7, 10>> ELSE <<5, 100>>)
    /\ UNCHANGED <<notMigration, cancel_cb, migInput, upload_cache, counter, total>>

\* one turn of "for i, entry in enumerate(db_entries)": the page of the
\* entry is created in the new database and its content under the page; a
\* failure is logged and the loop goes on.  After the last entry
\* migrate_database_under returns.
MigrateEntry ==
    /\ mphase = "running"
    /\ MTop.fn = "database"
    /\ MTop.stage = "entries"
    /\ IF MTop.rest = <<>>
       THEN /\ mphase' = "done"
            /\ mstack' = <<>>
            /\ reported' = Append(reported, 100)
            /\ UNCHANGED <<notMigration, cancel_cb, migInput, log, upload_cache,
                           counter, total, faults>>
       ELSE IF cancel_cb
       THEN MAbort("cancelled")
       ELSE \E ok \in BOOLEAN :
            LET b == Head(MTop.rest)
                down == ok /\ HasChildren(b)
                me == SetMTop([MTop EXCEPT !.rest = Tail(@)])
                db_entries == Children(Root)
                i == Len(db_entries) - Len(MTop.rest)
            IN /\ Outcome(ok)
               /\ log' = log \o <<Event("create_entry", NewDb, <<b>>, ok, None)>>
                             \o (IF down
                                 THEN <<Event("descend", NewId(b), <<b>>, TRUE, None)>>
                                 ELSE <<>>)
               /\ reported' = Append(reported,
                                     10 + (i * 80) \div Max(Len(db_entries), 1))
               /\ counter' = IF down THEN 0 ELSE counter
               /\ total' = IF down THEN Max(1, CountUnder(b)) ELSE total
               /\ mstack' = IF down
                            THEN Append(me, Call("recursive", NewId(b), Children(b)))
                            ELSE me
               /\ UNCHANGED <<notMigration, cancel_cb, migInput, upload_cache,
                              mphase>>

\* JobManager.cancel sets the job's cancel_event while the engine runs
CancelMigration ==
    /\ mphase \in {"start", "running"}
    /\ ~cancel_cb
    /\ cancel_cb' = TRUE
    /\ UNCHANGED <<notMigration, migVars>>

NextMigrate ==
    \/ StartMigration
    \/ CollectRegular
    \/ ProcessChildPage
    \/ NextChunk
    \/ BuildPayload
    \/ AppendBatch
    \/ AppendSingle
    \/ AfterAppend
    \/ GetPage
    \/ GetDatabase
    \/ CreateDatabase
    \/ MigrateEntry
    \/ CancelMigration

SpecMigrate == InitMigrate /\ [][NextMigrate]_vars

\* NotionMigrateService(self.settings) as it would be if the service of the
\* job before were used again
MutNewService(cache) == cache

\* NotionMigrateService(self.settings): self._upload_cache = {}
NewService(cache) == <<>>

\* a second migrate job of the same capture, with a target id of its own:
\* its runner makes a service of its own and reads tree.json and
\* manifest.json again
Again ==
    /\ mphase = "done"
    /\ first = None
    /\ ~cancel_cb
    /\ source.n <= MaxNodes
    /\ first' = Some(log)
    /\ mstack' = <<>>
    /\ log' = <<>>
    /\ upload_cache' = NewService(upload_cache)
    /\ counter' = 0
    /\ total' = 0
    /\ reported' = <<>>
    /\ faults' = 0
    /\ mphase' = "start"
    /\ UNCHANGED <<notMigration, cancel_cb, mflavor, source, asset_map, captioned,
                   disk, target>>

NextTwice ==
    \/ NextMigrate
    \/ Again

SpecTwice == InitMigrate /\ [][NextTwice]_vars
\* ------------------------------------------------------------------------
\* Properties of the materialization
\* ------------------------------------------------------------------------

\* the remote calls that ask for the creation of source nodes
Creations == {"append", "append_one", "create_page", "create_entry"}

\* the source nodes a creation request names, in the order of its items
Named(e) ==
    IF e.op \in {"append", "append_one"}
    THEN [j \in 1..Len(e.items) |-> e.items[j].node]
    ELSE e.items

\* where node b is first asked for: the place of the request in the log and
\* the place of b among its items (<<0, 0>>: nowhere)
FirstRequest(b) ==
    LET Names(k) == LET ns == Named(log[k])
                    IN {j \in 1..Len(ns) : ns[j] = b}
        hits == {k \in 1..Len(log) : log[k].op \in Creations /\ Names(k) # {}}
    IN IF hits = {} THEN <<0, 0>>
       ELSE LET k == CHOOSE x \in hits : \A y \in hits : x <= y
            IN <<k, CHOOSE j \in Names(k) : TRUE>>

\* the siblings of b hold a child_page and a node that is none
Mixed(b) ==
    \E c, d \in 1..source.n :
        /\ source.par[c] = source.par[b]
        /\ source.par[d] = source.par[b]
        /\ source.kind[c] = "child_page"
        /\ source.kind[d] # "child_page"

\* C14: in a sibling list that mixes child_page nodes and regular nodes, a
\* sibling is first named by a creation request only after every earlier
\* sibling was named, by an earlier request or by an earlier item of the
\* same request.
C14_SiblingsInSourceOrder ==
    (\E p \in 1..source.n : source.kind[p] = "child_page") =>
        \A b, c \in 1..source.n :
            (/\ b < c
             /\ source.par[b] = source.par[c]
             /\ Mixed(b)
             /\ FirstRequest(c) # <<0, 0>>)
            => LET x == FirstRequest(b)
                   y == FirstRequest(c)
               IN /\ x # <<0, 0>>
                  /\ x[1] < y[1] \/ (x[1] = y[1] /\ x[2] < y[2])

\* a run is over in which a regular node, a child_page and a regular node
\* under the target were all asked for
C14_Witness ==
    /\ mphase = "done"
    /\ mflavor = "page"
    /\ source.n = MaxNodes
    /\ \A b \in 1..source.n : source.par[b] = Root
    /\ source.kind[1] = "regular"
    /\ source.kind[2] = "child_page"
    /\ source.kind[3] = "regular"
    /\ \A b \in 1..source.n : FirstRequest(b) # <<0, 0>>
\* the source nodes that have children
Parents == {source.par[b] : b \in 1..source.n}

\* a is the beginning of b
IsPrefix(a, b) == Len(a) <= Len(b) /\ a = SubSeq(b, 1, Len(a))

\* the entries of kind op that come after place k of the log and are about
\* a node of the set nodes
Later(k, op, nodes) ==
    LET Fits(e) == e.op = op /\ Named(e)[1] \in nodes
    IN SelectSeq(SubSeq(log, k + 1, Len(log)), Fits)

\* the nodes the entries of es are about
About(es) == [j \in 1..Len(es) |-> Named(es[j])[1]]

\* C15: after a batch call that failed, the nodes of its chunk are sent again
\* one call each and in chunk order, whether or not the calls before
\* succeeded, and the children of the chunk's nodes that have children are
\* created in chunk order, under the block made for the node or, when its
\* call failed, under the parent of the chunk; a run that ends without
\* CancelledError has done so for every node of the chunk.
C15_RetryOneByOne ==
    \A k \in 1..Len(log) :
        (log[k].op = "append" /\ ~log[k].ok) =>
            LET chunk == Named(log[k])
                nodes == {chunk[j] : j \in 1..Len(chunk)}
                parents == Parents
                HasKids(b) == b \in parents
                retried == Later(k, "append_one", nodes)
                descents == Later(k, "descend", nodes)
                sent == About(retried)
                entered == About(descents)
                withKids == SelectSeq(chunk, HasKids)
            IN /\ IsPrefix(sent, chunk)
               /\ IsPrefix(entered, withKids)
               /\ \A d \in 1..Len(descents) :
                      \E r \in 1..Len(retried) :
                          /\ sent[r] = entered[d]
                          /\ descents[d].on =
                                 IF retried[r].ok THEN NewId(entered[d])
                                 ELSE log[k].on
               /\ mphase = "done" =>
                      /\ sent = chunk
                      /\ entered = withKids

\* a run is over in which a batch call of two or more nodes failed, the call
\* for its first node failed too, a call for a later node succeeded, and the
\* children of the first node were created under the parent of the chunk
C15_Witness ==
    /\ mphase = "done"
    /\ \E k \in 1..Len(log) :
           /\ log[k].op = "append"
           /\ ~log[k].ok
           /\ Len(log[k].items) >= 2
           /\ \E m, g, d \in (k + 1)..Len(log) :
                  /\ m < g
                  /\ log[m].op = "append_one"
                  /\ ~log[m].ok
                  /\ Named(log[m])[1] = Named(log[k])[1]
                  /\ log[g].op = "append_one"
                  /\ log[g].ok
                  /\ log[d].op = "descend"
                  /\ log[d].items = <<Named(log[k])[1]>>
                  /\ log[d].on = log[k].on
\* the lists of sequences of ss joined
RECURSIVE Joined(_)
Joined(ss) == IF ss = <<>> THEN <<>> ELSE Head(ss) \o Joined(Tail(ss))

\* the nodes of the batch calls made for the children of source node p, in
\* the order of the calls
BatchedUnder(p) ==
    LET Fits(e) == e.op = "append" /\ source.par[e.items[1].node] = p
        es == SelectSeq(log, Fits)
    IN Joined([j \in 1..Len(es) |-> Named(es[j])])

\* the children of p that are not child_page
RegularChildren(p) ==
    LET IsRegular(b) == source.kind[b] # "child_page"
    IN SelectSeq(Children(p), IsRegular)

\* _append_children_recursive was called for the children of p
Entered(p) ==
    \/ p = Root /\ mflavor = "page" /\ mphase # "start"
    \/ \E k \in 1..Len(log) : log[k].op = "descend" /\ log[k].items = <<p>>

\* C20: every append request has from 1 to APPEND_LIMIT items; the batch
\* requests made for the children of a node name its regular children in
\* their order, each once and none left out up to the last one named, and
\* all of them once a run that entered the list is over.
C20_ChunksCoverRun ==
    /\ \A k \in 1..Len(log) :
           log[k].op \in {"append", "append_one"} =>
               /\ Len(log[k].items) >= 1
               /\ Len(log[k].items) <= APPEND_LIMIT
    /\ \A p \in {Root} \cup Parents :
           LET named == BatchedUnder(p)
               run == RegularChildren(p)
           IN /\ IsPrefix(named, run)
              /\ (mphase = "done" /\ Entered(p)) => named = run

\* a run of more than two chunks is over, all its batch calls answered
C20_Witness ==
    /\ mphase = "done"
    /\ source.n > 2 * APPEND_LIMIT
    /\ faults = 0
    /\ Len(SelectSeq(log, LAMBDA e : e.op = "append")) = 3
    /\ Len(log[3].items) = 1
\* the entries of kind op about local path p, in order
OfPath(op, p) ==
    LET Fits(e) == e.op = op /\ e.on = p
    IN SelectSeq(log, Fits)

\* C16 as stated: a local path is uploaded at most once, and every node that
\* refers to it gets the same upload reference.
C16_UploadedOnce ==
    \A p \in Paths :
        /\ Len(OfPath("upload", p)) <= 1
        /\ \A x, y \in 1..Len(OfPath("reference", p)) :
               OfPath("reference", p)[x].ref = OfPath("reference", p)[y].ref

\* C16 as the code has it: a local path has at most one upload that
\* succeeded and no upload call after it; every reference made from then on,
\* on the retry path as elsewhere, gets the id of that upload, and every
\* reference made before gets none.
C16_UploadKeptOnceDone ==
    \A p \in Paths :
        \A k \in 1..Len(log) :
            (log[k].op = "upload" /\ log[k].on = p /\ log[k].ok) =>
                /\ \A m \in 1..Len(log) :
                       (log[m].op = "upload" /\ log[m].on = p /\ m # k) =>
                           (m < k /\ ~log[m].ok)
                /\ \A m \in 1..Len(log) :
                       (log[m].op = "reference" /\ log[m].on = p) =>
                           log[m].ref = IF m > k THEN log[k].ref ELSE None

\* one upload that succeeded has served three references of a path: in the
\* payloads of a batch call that failed and again on the retry path
C16_Witness ==
    /\ \E k \in 1..Len(log) : log[k].op = "append" /\ ~log[k].ok
    /\ \E k \in 1..Len(log) : log[k].op = "append_one"
    /\ \E p \in Paths :
           /\ Len(OfPath("upload", p)) = 1
           /\ Len(OfPath("reference", p)) >= 3
           /\ \A x \in 1..Len(OfPath("reference", p)) :
                  OfPath("reference", p)[x].ref = OfPath("upload", p)[1].ref
           /\ OfPath("upload", p)[1].ok
\* the asset of node b cannot be had from the disk: the asset map has no
\* entry for b, the file is missing or it is above the ceiling
NoFile(b) ==
    \/ b \notin DOMAIN asset_map
    \/ disk[asset_map[b].local_path] # "ok"

\* the siblings of b that are batched with it: those with no child_page
\* between them and b
RunOf(b) ==
    LET Joins(c) ==
            /\ source.kind[c] # "child_page"
            /\ \A d \in 1..source.n :
                   (/\ source.par[d] = source.par[b]
                    /\ source.kind[d] = "child_page")
                   => ~((b < d /\ d < c) \/ (c < d /\ d < b))
    IN SelectSeq(Children(source.par[b]), Joins)

\* C17: the payload sent for an asset node whose file cannot be had from the
\* disk has no file reference, and a payload without file reference has as
\* its caption the caption of the source, else the original file name when
\* the asset map has it, else none; a materialization of a page ends with
\* the job in error in no case, with every asset node of a list it entered
\* sent in a batch request with the siblings of its run, and with the job
\* done unless it was cancelled.
C17_PlaceholderForLostAsset ==
    /\ \A k \in 1..Len(log) :
           log[k].op \in {"append", "append_one"} =>
               \A j \in 1..Len(log[k].items) :
                   LET it == log[k].items[j]
                   IN source.kind[it.node] = "asset" =>
                          /\ NoFile(it.node) => it.file = None
                          /\ it.file = None =>
                                 it.caption =
                                     IF captioned THEN "source"
                                     ELSE IF it.node \in DOMAIN asset_map
                                     THEN "original"
                                     ELSE "none"
    /\ mflavor = "page" =>
           /\ JobStatus # "error"
           /\ (mphase \notin {"start", "running"} /\ ~cancel_cb) => JobStatus = "done"
           /\ mphase = "done" =>
                  \A b \in 1..source.n :
                      (source.kind[b] = "asset" /\ Entered(source.par[b])) =>
                          \E k \in 1..Len(log) :
                              /\ log[k].op = "append"
                              /\ Named(log[k]) = RunOf(b)

\* a run is over with the job done and every remote call answered, in which
\* a batch request held a sibling and an asset node whose file was not on
\* the disk, sent without file reference and with the original file name
C17_Witness ==
    /\ JobStatus = "done"
    /\ faults = 0
    /\ \E k \in 1..Len(log) :
           /\ log[k].op = "append"
           /\ log[k].ok
           /\ Len(log[k].items) >= 2
           /\ \E j \in 1..Len(log[k].items) :
                  /\ source.kind[log[k].items[j].node] = "asset"
                  /\ log[k].items[j].node \in DOMAIN asset_map
                  /\ NoFile(log[k].items[j].node)
                  /\ log[k].items[j].file = None
                  /\ log[k].items[j].caption = "original"
\* C18: a materialization of a database whose target is a database asks the
\* remote for the target only: it makes no create_database call, no call
\* that creates an entry and no append call; it does not end done or
\* cancelled, and once it has ended the job is in error.
C18_DatabaseTargetRefused ==
    (mflavor = "database" /\ target = "database") =>
        /\ \A k \in 1..Len(log) : log[k].op \in {"get_page", "get_database"}
        /\ mphase \in {"start", "running", "failed"}
        /\ mphase = "failed" => JobStatus = "error"

\* the target was found to be a database and the run is over
C18_Witness ==
    /\ mflavor = "database"
    /\ target = "database"
    /\ mphase = "failed"
    /\ JobStatus = "error"
    /\ Len(log) = 2
    /\ log[1].op = "get_page"
    /\ ~log[1].ok
    /\ log[2].op = "get_database"
    /\ log[2].ok
\* C24: once the cancel flag is set no further listing call (listChildren or
\* queryEntries) is issued, in a page capture and in a database capture.
C24_NoListingAfterCancel ==
    [][cancel_cb => calls' = calls]_vars
\* _dump_entries: "ready" of a capture directory
Ready == {"tree.json", "manifest.json"} \subseteq files

\* tree.json or manifest.json exists only when every page of every parent
\* that was asked for is fetched and every scheduled download is done
WrittenAfterWalk ==
    files # {} =>
        /\ \A p \in Nodes : calls[p] # <<>> => Len(calls[p]) = Len(remote[p])
        /\ \A b \in DOMAIN downloads : downloads[b] = "done"

\* C25: tree.json and manifest.json are written only after every page of
\* children of every visited parent is fetched and every scheduled download
\* is awaited, and a capture that was cancelled or whose remote call failed
\* during the walk has neither file and is not reported as ready.
C25_WrittenLastOrNever ==
    /\ WrittenAfterWalk
    /\ (cancel_cb \/ raised \in {"remote", "CancelledError"}) =>
           (files = {} /\ ~Ready)
RECURSIVE TreeNodes(_)
\* the nodes of a recorded list at every depth, as <<id, type, has_children>>
TreeNodes(snaps) ==
    IF Len(snaps) = 0 THEN <<>>
    ELSE LET h == Head(snaps)
         IN <<<<h.id, h.type, h.has_children>>>> \o TreeNodes(h.children)
                \o TreeNodes(Tail(snaps))

\* the nodes of manifest["nodes"], as <<id, type, has_children>>
ManifestNodes ==
    [k \in 1..Len(manifest) |->
        <<manifest[k].id, manifest[k].type, manifest[k].has_children>>]

Range(s) == {s[k] : k \in 1..Len(s)}

\* the place of the node of block id in manifest["nodes"]
Place(id) == CHOOSE k \in 1..Len(manifest) : manifest[k].id = id

\* C28: in a completed page capture manifest.nodes has exactly one node for
\* every node of the tree document, with the same id, type and has_children,
\* and the nodes of two children of one parent stand in the order in which
\* the children were fetched, whatever lies below them.
C28_ManifestMatchesTree ==
    (flavor = "page" /\ phase \in {"walked", "written"}) =>
        LET nodes == TreeNodes(tree[1].children)
        IN /\ Len(manifest) = Len(nodes)
           /\ Range(ManifestNodes) = Range(nodes)
           /\ Cardinality(Range(ManifestNodes)) = Len(manifest)
           /\ \A p \in Nodes :
                LET kids == Ids(Concat(calls[p]))
                IN \A i, j \in 1..Len(kids) :
                     i < j => Place(kids[i]) < Place(kids[j])

\* a page capture is complete in which a block with children of its own was
\* fetched before a sibling
C28_Witness ==
    /\ flavor = "page"
    /\ phase = "written"
    /\ \E p \in Nodes :
         LET kids == Concat(calls[p])
         IN /\ Len(kids) >= 2
            /\ kids[1].has_children
            /\ calls[kids[1].id] # <<>>
            /\ Len(manifest) = MaxNodes
\* manifest.json as it is read back: dump_page_tree keeps its records under
\* "nodes", dump_database_tree under "entries"
ManifestDoc ==
    IF flavor = "page" THEN [nodes |-> manifest] ELSE [entries |-> manifest]

\* dict.get(key, [])
Get(doc, key) == IF key \in DOMAIN doc THEN doc[key] ELSE <<>>

\* the item of the asset map for the file record f: os.path.join(DUMP_ROOT, rel)
Resolved(f) == [local_path |-> <<"DUMP_ROOT", f>>, rel_path |-> f]

\* _build_asset_map_from_manifest(manifest, settings)
build_asset_map_from_manifest(doc) ==
    LET nodes == Get(doc, "nodes")
        kept == {k \in 1..Len(nodes) : nodes[k].files # <<>>}
        last(id) == CHOOSE k \in kept :
                        /\ nodes[k].id = id
                        /\ \A l \in kept : nodes[l].id = id => l <= k
    IN [id \in {nodes[k].id : k \in kept} |->
           [i \in 1..Len(nodes[last(id)].files) |->
               Resolved(nodes[last(id)].files[i])]]

\* the records of the captured blocks in the manifest: manifest["nodes"], or
\* the "nodes" of every item of manifest["entries"]
ManifestRecords ==
    IF flavor = "page" THEN Range(manifest)
    ELSE UNION {Range(manifest[k].nodes) : k \in 1..Len(manifest)}

\* C27: for a page capture and a database capture alike, the asset map built
\* from the written manifest has, for every captured node whose record lists
\* a file, an item under the id of the node with those files in the order of
\* the record and their paths resolved against the dump root.
C27_AssetMapCoversManifest ==
    phase = "written" =>
        LET amap == build_asset_map_from_manifest(ManifestDoc)
        IN \A r \in ManifestRecords :
             r.files # <<>> =>
                 /\ r.id \in DOMAIN amap
                 /\ amap[r.id] = [i \in 1..Len(r.files) |-> Resolved(r.files[i])]
\* the source nodes whose creation was asked of the remote
Handled ==
    {b \in 1..source.n :
        \E k \in 1..Len(log) :
            /\ log[k].op \in {"append", "append_one", "create_page"}
            /\ \E j \in 1..Len(log[k].items) : Named(log[k])[j] = b}

\* the percentages the walk of migrate_under reported: those after the two
\* reported before it and before the 100 reported after it
WalkReports ==
    SubSeq(reported, 3, IF mphase = "done" THEN Len(reported) - 1 ELSE Len(reported))

\* C29: in a page materialization total is the number of nodes, at least 1,
\* and is known before the first remote call; the processed count never
\* exceeds total and, when the walk is over, is the number of source nodes
\* handled; every percentage reported in the walk is
\* min(99, floor(100 * processed / total)) for the processed count of its
\* node and is not lower than an earlier one of the walk; 100 is reported
\* only when the walk has completed.
C29_PercentagesOfWalk ==
    /\ [](mflavor = "page" =>
            /\ log # <<>> => total = Max(1, source.n)
            /\ counter <= Max(1, source.n)
            /\ mphase = "done" => counter = Cardinality(Handled)
            /\ \A i \in 1..(Len(WalkReports) - 1) :
                   WalkReports[i] <= WalkReports[i + 1]
            /\ (\E i \in 1..Len(reported) : reported[i] = 100) => mphase = "done")
    /\ [][(mflavor = "page" /\ mphase' = "running" /\ reported' # reported) =>
            \/ reported' = <<1, 3>>
            \/ reported' = reported \o
                   [k \in 1..(counter' - counter) |->
                       Min(99, (100 * (counter + k)) \div total)]]_vars
\* the place in the log of the last request before place d to create node b
\* in a block list (0 when there is none)
LastAppend(b, d) ==
    LET asked == {r \in 1..(d - 1) :
                     /\ log[r].op \in {"append", "append_one"}
                     /\ \E j \in 1..Len(log[r].items) : Named(log[r])[j] = b}
    IN IF asked = {} THEN 0 ELSE CHOOSE r \in asked : \A q \in asked : q <= r

\* C26: the children of a node of a chunk are created under the block the
\* remote returned for that node, and under the parent of the chunk when the
\* call for the node failed; never under the block made for another node, on
\* the batch path and on the retry path.
C26_ChildrenUnderOwnResult ==
    \A d \in 1..Len(log) :
        (log[d].op = "descend" /\ LastAppend(log[d].items[1], d) # 0) =>
            LET b == log[d].items[1]
                r == LastAppend(b, d)
            IN /\ log[d].on = IF log[r].ok THEN NewId(b) ELSE log[r].on
               /\ \A c \in 1..source.n :
                      (c # b /\ source.par[c] = source.par[b]) =>
                          log[d].on # NewId(c)

\* a run is over in which a batch call of two nodes or more succeeded and
\* the children of a node that is not the first of the chunk were created
\* under the block made for that node
C26_Witness ==
    /\ mphase = "done"
    /\ \E d \in 1..Len(log) :
         /\ log[d].op = "descend"
         /\ LastAppend(log[d].items[1], d) # 0
         /\ LET b == log[d].items[1]
                r == LastAppend(b, d)
            IN /\ log[r].op = "append"
               /\ log[r].ok
               /\ Len(log[r].items) >= 2
               /\ Named(log[r])[1] # b
               /\ log[d].on = NewId(b)
\* the id of the second materialization that stands where id stood in the
\* first
TwinId(id) == <<id[1], 2, id[3]>>
TwinOpt(o) == IF o = None THEN None ELSE Some(TwinId(o[1]))

\* an entry of the log of the first materialization with the ids of the
\* second
Twin(e) ==
    [op |-> e.op,
     on |-> IF e.op \in {"upload", "reference"} THEN e.on ELSE TwinId(e.on),
     items |-> [j \in 1..Len(e.items) |->
                  IF e.op \in {"append", "append_one"}
                  THEN [e.items[j] EXCEPT !.file = TwinOpt(@)]
                  ELSE e.items[j]],
     ok |-> e.ok,
     ref |-> TwinOpt(e.ref)]

\* C21: a second materialization of the same tree with the same asset map,
\* under another target and with a remote that answers as it did the first
\* time, makes the requests of the first in the same order with the same
\* nodes, payloads and parents up to the ids; when it is over it has made
\* all of them.
C21_SameRequestsTwice ==
    first # None =>
        LET before == [k \in 1..Len(first[1]) |-> Twin(first[1][k])]
        IN /\ IsPrefix(log, before)
           /\ mphase = "done" => log = before

\* a second materialization is over in which a call failed, an asset was
\* uploaded and the children of a node were created
C21_Witness ==
    /\ first # None
    /\ mphase = "done"
    /\ \E k \in 1..Len(log) : ~log[k].ok /\ log[k].op \in {"append", "append_one"}
    /\ \E k \in 1..Len(log) : log[k].op = "upload" /\ log[k].ok
    /\ \E k \in 1..Len(log) : log[k].op = "descend"

\* --------------------------------------------------------------------------
\* The properties of a database materialization (migrate_database_under):
\* the schema handed to create_database, the option ids of the new database
\* and the properties handed to pages.create for an entry
\* --------------------------------------------------------------------------

\* the most properties of the captured database
MaxProps == 2

\* the most options of a select or multi_select property
MaxOptions == 2

\* the names of the properties
PropNames == {<<"Tags", "Stage", "Due">>[k] : k \in 1..MaxProps}

\* READONLY_PROPERTIES of _convert_dump_properties_to_notion_format
READONLY_PROPERTIES ==
    {"created_time", "created_by", "last_edited_time", "last_edited_by",
     "rollup", "formula"}

\* the property types of the model: the two with options, two writable ones
\* (title, always written; number, written unless null), the read-only ones
\* and one that neither conversion knows (button)
PropTypes ==
    {"select", "multi_select", "title", "number", "button"}
        \cup READONLY_PROPERTIES

\* the types whose schema and values carry options
Optioned == {"select", "multi_select"}

\* the names of the options, by number; the option after the last one of
\* the schemas is one that an entry still holds and no schema lists
OptionNames == <<"red", "green", "blue", "grey">>

\* an option of the captured database and one of the new database
SourceOption(i) == [id |-> <<"source", i>>, name |-> OptionNames[i]]

NewOption(i, k) == [id |-> <<"new", k>>, name |-> OptionNames[i]]

\* the options a captured property of a type with options has: the remote
\* gives every option its own id and its own name
SourceOptions == {[k \in 1..n |-> SourceOption(k)] : n \in 0..MaxOptions}

\* the orders in which the new database lists options, by source option
OptionOrders ==
    {o \in UNION {[1..n -> 1..MaxOptions] : n \in 0..MaxOptions} :
        \A j, k \in DOMAIN o : j # k => o[j] # o[k]}

\* the captured schemas: every property has its type and, under the key of
\* its type, its configuration (the options, for a type with options)
SchemaProps ==
    {[type |-> t, options |-> o] : t \in Optioned, o \in SourceOptions}
        \cup {[type |-> t, options |-> <<>>] : t \in PropTypes \ Optioned}

Schemas ==
    UNION {[S -> SchemaProps] : S \in SUBSET PropNames}

\* the option values of a captured entry: options of the schema and one
\* option that the schema does not list any more, each at most once
ValueLists ==
    {v \in UNION {[1..n -> 1..(MaxOptions + 1)] : n \in 0..MaxOptions} :
        \A j, k \in DOMAIN v : j < k => v[j] < v[k]}

\* the values a property of a schema holds in a captured entry: null
\* (options <<>> of a select, null of a number) or a value
ValuesOf(d) ==
    CASE d.type = "select" ->
            {[type |-> d.type, null |-> v = <<>>,
              options |-> [k \in DOMAIN v |-> SourceOption(v[k])]] :
                v \in {l \in ValueLists : Len(l) <= 1}}
      [] d.type = "multi_select" ->
            {[type |-> d.type, null |-> FALSE,
              options |-> [k \in DOMAIN v |-> SourceOption(v[k])]] :
                v \in ValueLists}
      [] d.type = "number" ->
            {[type |-> d.type, null |-> n, options |-> <<>>] : n \in BOOLEAN}
      [] OTHER -> {[type |-> d.type, null |-> FALSE, options |-> <<>>]}

\* the answers of the remote to create_database: every property asked for,
\* with its type and, for a type with options, options of the remote's ids
Answers(asked) ==
    {[n \in DOMAIN asked |->
        [type |-> asked[n].type,
         options |-> [k \in DOMAIN o[n] |-> NewOption(o[n][k], k)]]] :
        o \in {f \in [DOMAIN asked -> OptionOrders] :
                 \A n \in DOMAIN asked :
                     \/ asked[n].type \in Optioned
                     \/ f[n] = <<>>}}

\* _convert_dump_schema_to_creation_format: whether a property is kept
Creatable(prop_data) ==
    prop_data.type \in
        {"select", "multi_select", "title", "number", "formula", "rollup",
         "created_time", "created_by", "last_edited_time", "last_edited_by"}

convert_dump_schema_to_creation_format(dump_schema) ==
    [n \in {m \in DOMAIN dump_schema : Creatable(dump_schema[m])} |->
        [type |-> dump_schema[n].type, options |-> dump_schema[n].options]]

\* the options of a property under the key of a type
OptionsUnder(prop, prop_type) ==
    IF prop.type = prop_type THEN prop.options ELSE <<>>

\* the new options of the name of an original option, in order
SameName(new_options, orig_opt) ==
    SelectSeq(new_options, LAMBDA new_opt : new_opt.name = orig_opt.name)

MutOptionMapping(original_options, new_options) ==
    LET matched == SelectSeq(original_options,
                       LAMBDA o : SameName(new_options, o) # <<>>)
    IN  [i \in {matched[k].id : k \in DOMAIN matched} |->
            new_options[1].id]

\* the loop over original_options: the id of every original option that has
\* a new option of its name maps to the id of the first such option
OptionMapping(original_options, new_options) ==
    LET matched == SelectSeq(original_options,
                       LAMBDA o : SameName(new_options, o) # <<>>)
    IN  [i \in {matched[k].id : k \in DOMAIN matched} |->
            LET same == {k \in DOMAIN matched : matched[k].id = i}
                last == CHOOSE k \in same : \A j \in same : j <= k
            IN  Head(SameName(new_options, matched[last])).id]

\* _build_option_id_mappings: a mapping for every original property with
\* options whose name the new database has, when it maps anything
build_option_id_mappings(original_properties, created_properties) ==
    LET MappingOf(n) ==
            OptionMapping(
                OptionsUnder(original_properties[n],
                             original_properties[n].type),
                OptionsUnder(created_properties[n], original_properties[n].type))
        mapped == {n \in DOMAIN original_properties :
                     /\ original_properties[n].type \in Optioned
                     /\ n \in DOMAIN created_properties
                     /\ MappingOf(n) # <<>>}
    IN  [n \in mapped |-> MappingOf(n)]

\* the option written for an option of a value of a property
MapOption(mappings, prop_name, option) ==
    IF prop_name \in DOMAIN mappings
    THEN IF option.id \in DOMAIN mappings[prop_name]
         THEN [option EXCEPT !.id = mappings[prop_name][option.id]]
         ELSE option
    ELSE option

\* _convert_dump_properties_to_notion_format: whether a property of an entry
\* is written (the read-only ones and the unknown ones are skipped, and so is
\* a null select or number)
Writable(prop_data) ==
    CASE prop_data.type \in READONLY_PROPERTIES -> FALSE
      [] prop_data.type \in {"select", "number"} -> ~prop_data.null
      [] prop_data.type \in {"multi_select", "title"} -> TRUE
      [] OTHER -> FALSE

convert_dump_properties_to_notion_format(properties, mappings) ==
    [n \in {m \in DOMAIN properties : Writable(properties[m])} |->
        [type |-> properties[n].type,
         options |-> [k \in DOMAIN properties[n].options |->
                         MapOption(mappings, n, properties[n].options[k])]]]

InitProperties ==
    /\ Constructed(0)
    /\ NoCapture
    /\ NoFolders
    /\ NoMigration
    /\ db_properties \in Schemas
    /\ dump_properties \in
           {p \in [DOMAIN db_properties ->
                     UNION {ValuesOf(d) : d \in SchemaProps}] :
               \A n \in DOMAIN db_properties :
                   p[n] \in ValuesOf(db_properties[n])}
    /\ creation_properties = None
    /\ new_properties = <<>>
    /\ option_mappings = <<>>
    /\ notion_properties = None

\* migrate_database_under, from the conversion of the schema to the option
\* mappings: the schema is converted and handed to create_database, the
\* remote answers with the properties of the new database, and the option
\* ids are mapped
create_database ==
    /\ creation_properties = None
    /\ LET asked == convert_dump_schema_to_creation_format(db_properties)
       IN  /\ creation_properties' = Some(asked)
           /\ \E answer \in Answers(asked) :
                  /\ new_properties' = answer
                  /\ option_mappings' =
                         build_option_id_mappings(db_properties, answer)
    /\ UNCHANGED <<orchVars, dumpVars, dirVars, migVars, db_properties,
                   dump_properties, notion_properties>>

\* _migrate_database_entry up to pages.create: the properties of the entry
\* are converted with the option mappings and handed to the remote
migrate_database_entry ==
    /\ creation_properties # None
    /\ notion_properties = None
    /\ notion_properties' =
           Some(convert_dump_properties_to_notion_format(dump_properties,
                                                         option_mappings))
    /\ UNCHANGED <<orchVars, dumpVars, dirVars, migVars, db_properties,
                   dump_properties, creation_properties, new_properties,
                   option_mappings>>

NextProperties == create_database \/ migrate_database_entry

SpecProperties == InitProperties /\ [][NextProperties]_vars

\* the options of a property that have the id of an option
WithId(options, option) ==
    SelectSeq(options, LAMBDA o : o.id = option.id)

\* the options of the property of the new database that are named as the
\* source option of the id of a value's option
NewOfValue(n, option) ==
    LET sources == WithId(db_properties[n].options, option)
    IN  IF sources = <<>> \/ n \notin DOMAIN new_properties
        THEN <<>>
        ELSE SameName(new_properties[n].options, Head(sources))

\* the properties written for the entry
Written == notion_properties[1]

\* C31: once the properties of an entry are handed to pages.create, every
\* option of a select or multi_select value of the entry is written, in its
\* place, with the id of the new database's option named as its source
\* option when there is one, and unchanged when there is none
C31_OptionIdsOfNewDatabase ==
    notion_properties # None =>
        \A n \in DOMAIN Written :
            Written[n].type \in Optioned =>
                /\ Len(Written[n].options) = Len(dump_properties[n].options)
                /\ \A k \in DOMAIN Written[n].options :
                       LET value == dump_properties[n].options[k]
                           new == NewOfValue(n, value)
                       IN  IF new = <<>>
                           THEN Written[n].options[k] = value
                           ELSE Written[n].options[k] =
                                    [value EXCEPT !.id = Head(new).id]

\* an entry is written with one option of a new id, found in second place
\* among the new options, and one option passed through
C31_Witness ==
    /\ notion_properties # None
    /\ \E n \in DOMAIN Written :
           /\ Written[n].type = "multi_select"
           /\ \E k \in DOMAIN Written[n].options :
                  /\ Len(new_properties[n].options) = 2
                  /\ Written[n].options[k].id = new_properties[n].options[2].id
           /\ \E k \in DOMAIN Written[n].options :
                  Written[n].options[k] = dump_properties[n].options[k]

\* the schema handed to create_database
Asked == creation_properties[1]

\* C32: the schema handed to create_database holds no property of a
\* read-only or computed type and holds every other captured property of a
\* type the conversion supports, under its name and with its type; and the
\* properties handed to pages.create hold no property of such a type
C32_NoReadOnlyProperties ==
    /\ creation_properties # None =>
           /\ \A n \in DOMAIN Asked :
                  Asked[n].type \notin READONLY_PROPERTIES
           /\ \A n \in DOMAIN db_properties :
                  /\ db_properties[n].type \notin READONLY_PROPERTIES
                  /\ db_properties[n].type # "button"
                  => /\ n \in DOMAIN Asked
                     /\ Asked[n].type = db_properties[n].type
    /\ notion_properties # None =>
           \A n \in DOMAIN Written :
               Written[n].type \notin READONLY_PROPERTIES

\* C38: when a page materialization that was not cancelled has ended, every
\* node of the tree it was given has been named in a creation request (a
\* batch, a request of one block or the creation of a child page)
C38_EveryNodeSubmitted ==
    /\ mflavor = "page"
    /\ mphase = "done"
    /\ ~cancel_cb
    => Handled = 1..source.n

====
